---------------------------- MODULE Spec2Model ----------------------------
(***************************************************************************)
(* Model of the ocserv_exporter session correlation engine                 *)
(* (package collector: Collector, its three tables, the event handlers and *)
(* CleanupOldDisconnects) together with the Prometheus metric vectors the  *)
(* handlers write.                                                         *)
(*                                                                         *)
(* Time is counted in whole seconds.  Go maps are functions whose DOMAIN   *)
(* is the set of keys present; the keys are the strings the code formats.  *)
(***************************************************************************)
EXTENDS Integers, Sequences, FiniteSets, TLC

(***************************************************************************)
(* Program constants (seconds).                                            *)
(***************************************************************************)
ReconnectWindow == 300
ProblematicSessionThreshold == 60
MaxSessionAge == 86400

(***************************************************************************)
(* Bounds of the model and the input sets events are drawn from.           *)
(***************************************************************************)
MaxEvents == 3          \* operations per behaviour of Spec
MaxDeepEvents == 4      \* operations per behaviour of DeepSpec
MaxArrivalEvents == 3   \* operations per behaviour of ArrivalSpec
MaxLiveEvents == 2      \* events per behaviour of LiveSpec
MaxLockOps == 3         \* operations per behaviour of LockSpec

Servers == {"ocserv"}
Usernames == {"alice", "bob"}
ClientIPs == {"62.4.32.53", "172.30.30.30"}
Ports == {30595, 30596}
VpnIPs == {"10.0.0.5"}
SessionIDs == {"yKsy7b"}
Reasons == {"user disconnected", "unspecified error"}
\* timestamps carried by log entries
EventTimes == {0, 45, 300}
\* readings of the wall clock taken by the cleanup pass
SweepTimes == {645, 86445}

(***************************************************************************)
(* parser.Event and the event kinds of parser.EventType.                   *)
(***************************************************************************)
EventUnknown == "Unknown"
EventUserLogin == "UserLogin"
EventUserDisconnect == "UserDisconnect"
EventSessionStart == "SessionStart"
EventSessionInvalidate == "SessionInvalidate"
EventVPNIPAssigned == "VPNIPAssigned"
EventAuthFailed == "AuthFailed"
EventByePacket == "ByePacket"
EventDPDWarning == "DPDWarning"
EventSecModClose == "SecModClose"

\* the zero value of parser.Event with the fields Parse always sets
Event(type, ts, server) ==
    [Type |-> type, Timestamp |-> ts, Server |-> server, Username |-> "",
     ClientIP |-> "", Port |-> 0, VpnIP |-> "", SessionID |-> "",
     Reason |-> "", RxBytes |-> 0, TxBytes |-> 0, DPDSeconds |-> 0]


(***************************************************************************)
(* Events as the classifier emits them, one constructor per rule.          *)
(***************************************************************************)
LoginEvent(ts, server, user, ip, port) ==
    [Event(EventUserLogin, ts, server) EXCEPT
        !.Username = user, !.ClientIP = ip, !.Port = port]

DisconnectEvent(ts, server, user, ip, port, reason, rx, tx) ==
    [Event(EventUserDisconnect, ts, server) EXCEPT
        !.Username = user, !.ClientIP = ip, !.Port = port,
        !.Reason = reason, !.RxBytes = rx, !.TxBytes = tx]

SessionStartEvent(ts, server, user, sid) ==
    [Event(EventSessionStart, ts, server) EXCEPT
        !.Username = user, !.SessionID = sid]

SessionInvalidateEvent(ts, server, user, sid) ==
    [Event(EventSessionInvalidate, ts, server) EXCEPT
        !.Username = user, !.SessionID = sid]

VPNIPEvent(ts, server, user, vpn) ==
    [Event(EventVPNIPAssigned, ts, server) EXCEPT
        !.Username = user, !.VpnIP = vpn]

AuthFailedEvent(ts, server, user, ip, port) ==
    [Event(EventAuthFailed, ts, server) EXCEPT
        !.Username = user, !.ClientIP = ip, !.Port = port]

ByePacketEvent(ts, server, user, ip) ==
    [Event(EventByePacket, ts, server) EXCEPT
        !.Username = user, !.ClientIP = ip]

DPDWarningEvent(ts, server, user, ip, secs) ==
    [Event(EventDPDWarning, ts, server) EXCEPT
        !.Username = user, !.ClientIP = ip, !.DPDSeconds = secs]

SecModCloseEvent(ts, server, user, sid) ==
    [Event(EventSecModClose, ts, server) EXCEPT
        !.Username = user, !.SessionID = sid]

(***************************************************************************)
(* State.                                                                  *)
(***************************************************************************)
VARIABLES
    sessions,            \* Collector.sessions: key string -> Session
    lastDisconnects,     \* Collector.lastDisconnects: "server:user" -> DisconnectRecord
    workerContext,       \* Collector.workerContext: "server:user:ip" -> WorkerContext
    geoIP,               \* Collector.geoIP: TRUE when a resolver is set
    clock,               \* the latest reading of time.Now()
    SessionInfo,         \* gauge vector  <<server, username, vpn_ip, country, client_type>>
    ActiveSessions,      \* gauge vector  <<server, username>>
    ConnectionsTotal,    \* counter vector <<server, username, client_ip>>
    ReconnectsTotal,     \* counter vector <<server, username>>
    SessionDuration,     \* histogram vector <<server, username>> -> number of observations
    ProblematicSessionsTotal, \* counter vector <<server, username, reason>>
    DisconnectionsTotal, \* counter vector <<server, username, reason>>
    ReceivedBytesTotal,  \* counter vector <<server, username>>
    SentBytesTotal,      \* counter vector <<server, username>>
    ConnectionsByCountry, \* counter vector <<server, username, country, country_code>>
    AuthFailedTotal,     \* counter vector <<server, username, client_ip, country, country_code>>
    LastEventTimestamp,  \* gauge
    nEvents,             \* history: number of operations performed so far
    last,                \* history: the event processed last (or the cleanup pass)
    prev,                \* history: the state as it was before it
    everDisconnected,    \* history: "server:user" -> timestamp of the Disconnect
                         \*          processed last for that user
    paused,              \* history: the "server:user" keys with a SessionPaused
                         \*          processed and, since then, no Disconnect of the
                         \*          user and no cleanup pass evicting a
                         \*          WorkerContext of the user
    mu,                  \* Collector.mu: the goroutine holding it for writing
                         \*          ("" when none) and those holding it for reading
    pc,                  \* goroutine -> position in the operation it executes
    op,                  \* goroutine -> the operation it executes
    locals,              \* goroutine -> the local variable of that operation
    line,                \* history: the log entry read last
    ctxDone,             \* main: ctx of context.WithCancel is cancelled
    loop,                \* main: goroutine -> the statement of its loop it is at
    journal,             \* the number of entries of the log source not yet read
    logFile,             \* main: TRUE when --log.file names a file to read
    tick,                \* main: ticker -> a tick waits in its channel
    ServerGauges,        \* the eight gauge vectors <<server>> of the server status
    SessionsByClientType, \* gauge vector <<server, client_type>>
    UserConcurrentSessions, \* gauge vector <<server, username>>
    round                \* main.pollOcctl: the statement the round is at, what
                         \*          it collected, and the users still to set

tables == <<sessions, lastDisconnects, workerContext>>
metrics == <<SessionInfo, ActiveSessions, ConnectionsTotal, ReconnectsTotal,
             SessionDuration, ProblematicSessionsTotal, DisconnectionsTotal,
             ReceivedBytesTotal, SentBytesTotal, ConnectionsByCountry,
             AuthFailedTotal, LastEventTimestamp>>
vars == <<sessions, lastDisconnects, workerContext, geoIP, clock,
          SessionInfo, ActiveSessions, ConnectionsTotal, ReconnectsTotal,
          SessionDuration, ProblematicSessionsTotal, DisconnectionsTotal,
          ReceivedBytesTotal, SentBytesTotal, ConnectionsByCountry,
          AuthFailedTotal, LastEventTimestamp,
          nEvents, last, prev, everDisconnected, paused,
          mu, pc, op, locals,
          line, ctxDone, loop, journal, logFile, tick,
          ServerGauges, SessionsByClientType, UserConcurrentSessions, round>>
lockVars == <<mu, pc, op, locals>>
mainVars == <<line, ctxDone, loop, journal, logFile, tick>>
occtlVars == <<ServerGauges, SessionsByClientType, UserConcurrentSessions, round>>

(***************************************************************************)
(* Go maps and Prometheus metric vectors.                                  *)
(***************************************************************************)
EmptyMap == [k \in {} |-> 0]
MapPut(m, k, v) == [x \in DOMAIN m \cup {k} |-> IF x = k THEN v ELSE m[x]]
MapDelete(m, k) == [x \in DOMAIN m \ {k} |-> m[x]]
MapDeleteAll(m, ks) == [x \in DOMAIN m \ ks |-> m[x]]

\* the value a vector exports for a label tuple (0 when the child does not exist)
VecValue(vec, labels) == IF labels \in DOMAIN vec THEN vec[labels] ELSE 0
\* vec.WithLabelValues(labels...).Add(d): creates the child at 0 when absent
VecAdd(vec, labels, d) == MapPut(vec, labels, VecValue(vec, labels) + d)
\* vec.WithLabelValues(labels...).Set(v)
VecSet(vec, labels, v) == MapPut(vec, labels, v)
\* vec.DeleteLabelValues(labels...)
VecDelete(vec, labels) == MapDelete(vec, labels)

(***************************************************************************)
(* Key formatting.                                                         *)
(***************************************************************************)
sessionKey(server, username, clientIP, port) ==
    server \o ":" \o username \o ":" \o clientIP \o ":" \o ToString(port)

workerContextKey(server, username, clientIP) ==
    server \o ":" \o username \o ":" \o clientIP

userKeyOf(server, username) == server \o ":" \o username

sidKey(server, sessionID) == "sid:" \o server \o ":" \o sessionID

\* len(key) > 4 && key[:4] == "sid:"
IsSidKey(key) == Len(key) > 4 /\ SubSeq(key, 1, 4) = "sid:"

(***************************************************************************)
(* GeoIP resolver: Lookup(ip) = <<country, countryCode>>.                  *)
(***************************************************************************)
\* "203.0.113.9" has a database record without an English country name;
\* an address net.ParseIP rejects or the database fails on gives <<"", "">>
Lookup(ip) ==
    CASE ip = "62.4.32.53"   -> <<"France", "FR">>
      [] ip = "172.30.30.30" -> <<"Private", "XX">>
      [] ip = "203.0.113.9"  -> <<"Unknown", "ZZ">>
      [] OTHER               -> <<"", "">>

\* the country handleLogin stores: empty without a resolver
LoginCountry(ip) == IF geoIP THEN Lookup(ip)[1] ELSE ""


(***************************************************************************)
(* Records of the three tables.                                            *)
(***************************************************************************)
Session(server, username, clientIP, port, vpnIP, country, sessionID, startTime) ==
    [Server |-> server, Username |-> username, ClientIP |-> clientIP,
     Port |-> port, VpnIP |-> vpnIP, Country |-> country,
     SessionID |-> sessionID, StartTime |-> startTime]

DisconnectRecord(server, ts) == [Server |-> server, Timestamp |-> ts]

WorkerContext(username, clientIP, server, lastUpdate) ==
    [Username |-> username, ClientIP |-> clientIP, Server |-> server,
     HadBye |-> FALSE, DPDWarning |-> FALSE, DPDSeconds |-> 0,
     SecModClose |-> FALSE, LastUpdate |-> lastUpdate]

NoEvent == Event("None", 0, "")

\* journal.Entry
Entry(ts, unit, message) ==
    [Timestamp |-> ts, Unit |-> unit, Message |-> message]
NoEntry == Entry(0, "", "")

\* the goroutines that use the Collector: the log reader and the cleanup
\* ticker of main, and a caller of the read accessor GetActiveSessions
Goroutines == {"reader", "cleanup", "accessor"}

\* the goroutines main starts with a loop that watches ctx
Loops == {"reader", "cleanup", "poller"}
\* the time.Tickers of main
Tickers == {"cleanup", "poller"}

\* the current state, as `prev` keeps it
Snapshot ==
    [sessions |-> sessions, lastDisconnects |-> lastDisconnects,
     workerContext |-> workerContext, SessionInfo |-> SessionInfo,
     ActiveSessions |-> ActiveSessions, ConnectionsTotal |-> ConnectionsTotal,
     ReconnectsTotal |-> ReconnectsTotal, SessionDuration |-> SessionDuration,
     ProblematicSessionsTotal |-> ProblematicSessionsTotal,
     DisconnectionsTotal |-> DisconnectionsTotal,
     ReceivedBytesTotal |-> ReceivedBytesTotal,
     SentBytesTotal |-> SentBytesTotal,
     ConnectionsByCountry |-> ConnectionsByCountry,
     AuthFailedTotal |-> AuthFailedTotal,
     LastEventTimestamp |-> LastEventTimestamp,
     clock |-> clock, last |-> last, paused |-> paused, line |-> line,
     ServerGauges |-> ServerGauges,
     SessionsByClientType |-> SessionsByClientType,
     UserConcurrentSessions |-> UserConcurrentSessions]

(***************************************************************************)
(* Init: the state after collector.New() and the optional                  *)
(* SetGeoIPResolver of main, with the metric vectors registered and empty. *)
(***************************************************************************)
\* no round of pollOcctl is under way
NoRound == [at |-> "idle", answers |-> EmptyMap, now |-> 0, pending |-> {}]

Init ==
    /\ sessions = EmptyMap
    /\ lastDisconnects = EmptyMap
    /\ workerContext = EmptyMap
    /\ geoIP \in BOOLEAN
    /\ clock = 0
    /\ SessionInfo = EmptyMap
    /\ ActiveSessions = EmptyMap
    /\ ConnectionsTotal = EmptyMap
    /\ ReconnectsTotal = EmptyMap
    /\ SessionDuration = EmptyMap
    /\ ProblematicSessionsTotal = EmptyMap
    /\ DisconnectionsTotal = EmptyMap
    /\ ReceivedBytesTotal = EmptyMap
    /\ SentBytesTotal = EmptyMap
    /\ ConnectionsByCountry = EmptyMap
    /\ AuthFailedTotal = EmptyMap
    /\ LastEventTimestamp = 0
    /\ nEvents = 0
    /\ last = NoEvent
    /\ paused = {}
    /\ line = NoEntry
    /\ ServerGauges = EmptyMap
    /\ SessionsByClientType = EmptyMap
    /\ UserConcurrentSessions = EmptyMap
    /\ round = NoRound
    /\ prev = Snapshot
    /\ everDisconnected = EmptyMap
    /\ mu = [writer |-> "", readers |-> {}]
    /\ pc = [g \in Goroutines |-> 0]
    /\ op = [g \in Goroutines |-> NoEvent]
    /\ locals = [g \in Goroutines |-> 0]
    /\ ctxDone = FALSE
    /\ loop = [g \in Loops |-> "idle"]
    /\ journal = 0
    /\ logFile = FALSE
    /\ tick = [t \in Tickers |-> FALSE]

(***************************************************************************)
(* handleLogin                                                             *)
(***************************************************************************)
\* variant: the last disconnect of any user of the server is consulted
IsReconnect_AnyUser(e) ==
    \E k \in DOMAIN lastDisconnects :
        /\ lastDisconnects[k].Server = e.Server
        /\ e.Timestamp - lastDisconnects[k].Timestamp < ReconnectWindow

\* the reconnect test of handleLogin
IsReconnect(e) ==
    LET userKey == userKeyOf(e.Server, e.Username)
    IN  /\ userKey \in DOMAIN lastDisconnects
        /\ e.Timestamp - lastDisconnects[userKey].Timestamp < ReconnectWindow

\* variant: an entry already stored under the key is kept
handleLogin_KeepExisting(e) ==
    LET key == sessionKey(e.Server, e.Username, e.ClientIP, e.Port)
        country == LoginCountry(e.ClientIP)
    IN  /\ ReconnectsTotal' =
              IF IsReconnect(e)
              THEN VecAdd(ReconnectsTotal, <<e.Server, e.Username>>, 1)
              ELSE ReconnectsTotal
        /\ sessions' =
              IF key \in DOMAIN sessions THEN sessions
              ELSE MapPut(sessions, key,
                     Session(e.Server, e.Username, e.ClientIP, e.Port, "",
                             country, "", e.Timestamp))
        /\ SessionInfo' = VecSet(SessionInfo,
              <<e.Server, e.Username, "", country, "">>, e.Timestamp)
        /\ ActiveSessions' = VecAdd(ActiveSessions, <<e.Server, e.Username>>, 1)
        /\ ConnectionsTotal' =
              VecAdd(ConnectionsTotal, <<e.Server, e.Username, e.ClientIP>>, 1)
        /\ ConnectionsByCountry' =
              IF geoIP /\ country # ""
              THEN VecAdd(ConnectionsByCountry,
                     <<e.Server, e.Username, country, Lookup(e.ClientIP)[2]>>, 1)
              ELSE ConnectionsByCountry
        /\ UNCHANGED <<lastDisconnects, workerContext, SessionDuration,
                       ProblematicSessionsTotal, DisconnectionsTotal,
                       ReceivedBytesTotal, SentBytesTotal, AuthFailedTotal>>

handleLogin(e) ==
    LET key == sessionKey(e.Server, e.Username, e.ClientIP, e.Port)
        country == LoginCountry(e.ClientIP)
    IN  /\ ReconnectsTotal' =
              IF IsReconnect(e)
              THEN VecAdd(ReconnectsTotal, <<e.Server, e.Username>>, 1)
              ELSE ReconnectsTotal
        /\ sessions' = MapPut(sessions, key,
              Session(e.Server, e.Username, e.ClientIP, e.Port, "", country,
                      "", e.Timestamp))
        /\ SessionInfo' = VecSet(SessionInfo,
              <<e.Server, e.Username, "", country, "">>, e.Timestamp)
        /\ ActiveSessions' = VecAdd(ActiveSessions, <<e.Server, e.Username>>, 1)
        /\ ConnectionsTotal' =
              VecAdd(ConnectionsTotal, <<e.Server, e.Username, e.ClientIP>>, 1)
        /\ ConnectionsByCountry' =
              IF geoIP /\ country # ""
              THEN VecAdd(ConnectionsByCountry,
                     <<e.Server, e.Username, country, Lookup(e.ClientIP)[2]>>, 1)
              ELSE ConnectionsByCountry
        /\ UNCHANGED <<lastDisconnects, workerContext, SessionDuration,
                       ProblematicSessionsTotal, DisconnectionsTotal,
                       ReceivedBytesTotal, SentBytesTotal, AuthFailedTotal>>

(***************************************************************************)
(* enrichDisconnectReason and handleDisconnect                             *)
(***************************************************************************)
\* variant: the BYE flag is tested before the sec-mod close flags
enrichDisconnectReason_ByeFirst(originalReason, ctxKey, server, username) ==
    LET ok == ctxKey \in DOMAIN workerContext
        secModKey == workerContextKey(server, username, "")
        secModOk == secModKey \in DOMAIN workerContext
    IN  IF originalReason = "unspecified error"
        THEN IF ok /\ workerContext[ctxKey].HadBye THEN "client bye"
             ELSE IF secModOk /\ workerContext[secModKey].SecModClose THEN "mobile sleep"
             ELSE IF ok /\ workerContext[ctxKey].SecModClose THEN "mobile sleep"
             ELSE IF ok /\ workerContext[ctxKey].DPDWarning THEN "dpd issue"
             ELSE originalReason
        ELSE originalReason

\* variant: the flags are consulted whatever the raw reason is
enrichDisconnectReason_AnyReason(originalReason, ctxKey, server, username) ==
    LET ok == ctxKey \in DOMAIN workerContext
        secModKey == workerContextKey(server, username, "")
        secModOk == secModKey \in DOMAIN workerContext
    IN  IF secModOk /\ workerContext[secModKey].SecModClose THEN "mobile sleep"
        ELSE IF ok /\ workerContext[ctxKey].SecModClose THEN "mobile sleep"
        ELSE IF ok /\ workerContext[ctxKey].HadBye THEN "client bye"
        ELSE IF ok /\ workerContext[ctxKey].DPDWarning THEN "dpd issue"
        ELSE originalReason

enrichDisconnectReason(originalReason, ctxKey, server, username) ==
    LET ok == ctxKey \in DOMAIN workerContext
        secModKey == workerContextKey(server, username, "")
        secModOk == secModKey \in DOMAIN workerContext
    IN  IF originalReason = "unspecified error"
        THEN IF secModOk /\ workerContext[secModKey].SecModClose THEN "mobile sleep"
             ELSE IF ok /\ workerContext[ctxKey].SecModClose THEN "mobile sleep"
             ELSE IF ok /\ workerContext[ctxKey].HadBye THEN "client bye"
             ELSE IF ok /\ workerContext[ctxKey].DPDWarning THEN "dpd issue"
             ELSE originalReason
        ELSE originalReason

\* "client bye", "user disconnected" and "mobile sleep" are expected behaviour
isProblematicReason(reason) ==
    /\ reason # "user disconnected"
    /\ reason # "client bye"
    /\ reason # "mobile sleep"
    /\ reason # ""

\* variant: the test duration > 0 is left out
IsProblematic_NoLowerBound(sessionExists, duration, reason) ==
    /\ sessionExists
    /\ duration < ProblematicSessionThreshold
    /\ isProblematicReason(reason)

\* the condition under which handleDisconnect counts a problematic session
IsProblematic(sessionExists, duration, reason) ==
    /\ sessionExists
    /\ duration < ProblematicSessionThreshold
    /\ duration > 0
    /\ isProblematicReason(reason)

\* variant: the handler returns when the Session is not in the table
handleDisconnect_ReturnOnMiss(e) ==
    LET userKey == userKeyOf(e.Server, e.Username)
        key == sessionKey(e.Server, e.Username, e.ClientIP, e.Port)
        ctxKey == workerContextKey(e.Server, e.Username, e.ClientIP)
        secModKey == workerContextKey(e.Server, e.Username, "")
        duration == e.Timestamp - sessions[key].StartTime
        reason == enrichDisconnectReason(e.Reason, ctxKey, e.Server, e.Username)
    IN  IF key \notin DOMAIN sessions
        THEN UNCHANGED <<sessions, lastDisconnects, workerContext, SessionInfo,
                         ActiveSessions, ConnectionsTotal, ReconnectsTotal,
                         SessionDuration, ProblematicSessionsTotal,
                         DisconnectionsTotal, ReceivedBytesTotal,
                         SentBytesTotal, ConnectionsByCountry, AuthFailedTotal>>
        ELSE
        /\ SessionDuration' =
              IF duration > 0
              THEN VecAdd(SessionDuration, <<e.Server, e.Username>>, 1)
              ELSE SessionDuration
        /\ SessionInfo' =
              VecDelete(SessionInfo,
                 <<e.Server, e.Username, sessions[key].VpnIP,
                   sessions[key].Country, "">>)
        /\ sessions' = MapDelete(sessions, key)
        /\ ProblematicSessionsTotal' =
              IF IsProblematic(TRUE, duration, reason)
              THEN VecAdd(ProblematicSessionsTotal,
                     <<e.Server, e.Username, reason>>, 1)
              ELSE ProblematicSessionsTotal
        /\ lastDisconnects' =
              MapPut(lastDisconnects, userKey, DisconnectRecord(e.Server, e.Timestamp))
        /\ ActiveSessions' = VecAdd(ActiveSessions, <<e.Server, e.Username>>, -1)
        /\ DisconnectionsTotal' =
              VecAdd(DisconnectionsTotal, <<e.Server, e.Username, reason>>, 1)
        /\ ReceivedBytesTotal' =
              VecAdd(ReceivedBytesTotal, <<e.Server, e.Username>>, e.RxBytes)
        /\ SentBytesTotal' =
              VecAdd(SentBytesTotal, <<e.Server, e.Username>>, e.TxBytes)
        /\ workerContext' = MapDeleteAll(workerContext, {ctxKey, secModKey})
        /\ UNCHANGED <<ConnectionsTotal, ReconnectsTotal, ConnectionsByCountry,
                       AuthFailedTotal>>

\* variant: the active-session gauge is lowered whether or not the Session
\* was in the table
handleDisconnect_DecOnMiss(e) ==
    LET userKey == userKeyOf(e.Server, e.Username)
        key == sessionKey(e.Server, e.Username, e.ClientIP, e.Port)
        ctxKey == workerContextKey(e.Server, e.Username, e.ClientIP)
        secModKey == workerContextKey(e.Server, e.Username, "")
        sessionExists == key \in DOMAIN sessions
        duration == IF sessionExists
                    THEN e.Timestamp - sessions[key].StartTime ELSE 0
        reason == enrichDisconnectReason(e.Reason, ctxKey, e.Server, e.Username)
    IN  /\ SessionDuration' =
              IF sessionExists /\ duration > 0
              THEN VecAdd(SessionDuration, <<e.Server, e.Username>>, 1)
              ELSE SessionDuration
        /\ SessionInfo' =
              IF sessionExists
              THEN VecDelete(SessionInfo,
                     <<e.Server, e.Username, sessions[key].VpnIP,
                       sessions[key].Country, "">>)
              ELSE SessionInfo
        /\ sessions' = IF sessionExists THEN MapDelete(sessions, key) ELSE sessions
        /\ ProblematicSessionsTotal' =
              IF IsProblematic(sessionExists, duration, reason)
              THEN VecAdd(ProblematicSessionsTotal,
                     <<e.Server, e.Username, reason>>, 1)
              ELSE ProblematicSessionsTotal
        /\ lastDisconnects' =
              MapPut(lastDisconnects, userKey, DisconnectRecord(e.Server, e.Timestamp))
        /\ ActiveSessions' = VecAdd(ActiveSessions, <<e.Server, e.Username>>, -1)
        /\ DisconnectionsTotal' =
              VecAdd(DisconnectionsTotal, <<e.Server, e.Username, reason>>, 1)
        /\ ReceivedBytesTotal' =
              VecAdd(ReceivedBytesTotal, <<e.Server, e.Username>>, e.RxBytes)
        /\ SentBytesTotal' =
              VecAdd(SentBytesTotal, <<e.Server, e.Username>>, e.TxBytes)
        /\ workerContext' = MapDeleteAll(workerContext, {ctxKey, secModKey})
        /\ UNCHANGED <<ConnectionsTotal, ReconnectsTotal, ConnectionsByCountry,
                       AuthFailedTotal>>

handleDisconnect(e) ==
    LET userKey == userKeyOf(e.Server, e.Username)
        key == sessionKey(e.Server, e.Username, e.ClientIP, e.Port)
        ctxKey == workerContextKey(e.Server, e.Username, e.ClientIP)
        secModKey == workerContextKey(e.Server, e.Username, "")
        sessionExists == key \in DOMAIN sessions
        duration == IF sessionExists
                    THEN e.Timestamp - sessions[key].StartTime ELSE 0
        reason == enrichDisconnectReason(e.Reason, ctxKey, e.Server, e.Username)
    IN  /\ SessionDuration' =
              IF sessionExists /\ duration > 0
              THEN VecAdd(SessionDuration, <<e.Server, e.Username>>, 1)
              ELSE SessionDuration
        /\ SessionInfo' =
              IF sessionExists
              THEN VecDelete(SessionInfo,
                     <<e.Server, e.Username, sessions[key].VpnIP,
                       sessions[key].Country, "">>)
              ELSE SessionInfo
        /\ sessions' = IF sessionExists THEN MapDelete(sessions, key) ELSE sessions
        /\ ProblematicSessionsTotal' =
              IF IsProblematic(sessionExists, duration, reason)
              THEN VecAdd(ProblematicSessionsTotal,
                     <<e.Server, e.Username, reason>>, 1)
              ELSE ProblematicSessionsTotal
        /\ lastDisconnects' =
              MapPut(lastDisconnects, userKey, DisconnectRecord(e.Server, e.Timestamp))
        /\ ActiveSessions' =
              IF sessionExists
              THEN VecAdd(ActiveSessions, <<e.Server, e.Username>>, -1)
              ELSE ActiveSessions
        /\ DisconnectionsTotal' =
              VecAdd(DisconnectionsTotal, <<e.Server, e.Username, reason>>, 1)
        /\ ReceivedBytesTotal' =
              VecAdd(ReceivedBytesTotal, <<e.Server, e.Username>>, e.RxBytes)
        /\ SentBytesTotal' =
              VecAdd(SentBytesTotal, <<e.Server, e.Username>>, e.TxBytes)
        /\ workerContext' = MapDeleteAll(workerContext, {ctxKey, secModKey})
        /\ UNCHANGED <<ConnectionsTotal, ReconnectsTotal, ConnectionsByCountry,
                       AuthFailedTotal>>


(***************************************************************************)
(* handleSessionStart, handleVPNIP, handleAuthFailed                       *)
(***************************************************************************)
handleSessionStart(e) ==
    /\ sessions' = MapPut(sessions, sidKey(e.Server, e.SessionID),
          Session(e.Server, e.Username, "", 0, "", "", e.SessionID, e.Timestamp))
    /\ UNCHANGED <<lastDisconnects, workerContext, SessionInfo, ActiveSessions,
                   ConnectionsTotal, ReconnectsTotal, SessionDuration,
                   ProblematicSessionsTotal, DisconnectionsTotal,
                   ReceivedBytesTotal, SentBytesTotal, ConnectionsByCountry,
                   AuthFailedTotal>>

\* the entries of c.sessions the loop of handleVPNIP can stop at
VPNIPCandidates(e) ==
    {k \in DOMAIN sessions :
        /\ sessions[k].Username = e.Username
        /\ sessions[k].Server = e.Server
        /\ sessions[k].VpnIP = ""}

\* variant: the handler fails when no entry matches
handleVPNIP_FailOnMiss(e) ==
    /\ \E k \in VPNIPCandidates(e) :
          LET session == sessions[k]
          IN  /\ SessionInfo' =
                    VecSet(VecDelete(SessionInfo,
                              <<session.Server, session.Username, "",
                                session.Country, "">>),
                           <<session.Server, session.Username, e.VpnIP,
                             session.Country, "">>,
                           session.StartTime)
              /\ sessions' = [sessions EXCEPT ![k].VpnIP = e.VpnIP]
    /\ UNCHANGED <<lastDisconnects, workerContext, ActiveSessions,
                   ConnectionsTotal, ReconnectsTotal, SessionDuration,
                   ProblematicSessionsTotal, DisconnectionsTotal,
                   ReceivedBytesTotal, SentBytesTotal, ConnectionsByCountry,
                   AuthFailedTotal>>

\* variant: the entry without VPN IP is not deleted before the new one is set
handleVPNIP_KeepOld(e) ==
    /\ IF VPNIPCandidates(e) = {}
       THEN UNCHANGED <<sessions, SessionInfo>>
       ELSE \E k \in VPNIPCandidates(e) :
              LET session == sessions[k]
              IN  /\ SessionInfo' =
                        VecSet(SessionInfo,
                               <<session.Server, session.Username, e.VpnIP,
                                 session.Country, "">>,
                               session.StartTime)
                  /\ sessions' = [sessions EXCEPT ![k].VpnIP = e.VpnIP]
    /\ UNCHANGED <<lastDisconnects, workerContext, ActiveSessions,
                   ConnectionsTotal, ReconnectsTotal, SessionDuration,
                   ProblematicSessionsTotal, DisconnectionsTotal,
                   ReceivedBytesTotal, SentBytesTotal, ConnectionsByCountry,
                   AuthFailedTotal>>

\* map iteration order is unspecified: any candidate may be the first one met
handleVPNIP(e) ==
    /\ IF VPNIPCandidates(e) = {}
       THEN /\ UNCHANGED <<sessions, SessionInfo>>
       ELSE \E k \in VPNIPCandidates(e) :
              LET session == sessions[k]
              IN  /\ SessionInfo' =
                        VecSet(VecDelete(SessionInfo,
                                  <<session.Server, session.Username, "",
                                    session.Country, "">>),
                               <<session.Server, session.Username, e.VpnIP,
                                 session.Country, "">>,
                               session.StartTime)
                  /\ sessions' = [sessions EXCEPT ![k].VpnIP = e.VpnIP]
    /\ UNCHANGED <<lastDisconnects, workerContext, ActiveSessions,
                   ConnectionsTotal, ReconnectsTotal, SessionDuration,
                   ProblematicSessionsTotal, DisconnectionsTotal,
                   ReceivedBytesTotal, SentBytesTotal, ConnectionsByCountry,
                   AuthFailedTotal>>

\* variant: an empty country from the resolver is not replaced by "Unknown"
handleAuthFailed_NoDefault(e) ==
    LET found == IF geoIP THEN Lookup(e.ClientIP) ELSE <<"Unknown", "">>
    IN  /\ AuthFailedTotal' = VecAdd(AuthFailedTotal,
              <<e.Server, e.Username, e.ClientIP, found[1], found[2]>>, 1)
        /\ UNCHANGED <<sessions, lastDisconnects, workerContext, SessionInfo,
                       ActiveSessions, ConnectionsTotal, ReconnectsTotal,
                       SessionDuration, ProblematicSessionsTotal,
                       DisconnectionsTotal, ReceivedBytesTotal, SentBytesTotal,
                       ConnectionsByCountry>>

handleAuthFailed(e) ==
    LET found == IF geoIP THEN Lookup(e.ClientIP) ELSE <<"Unknown", "">>
        country == IF found[1] = "" THEN "Unknown" ELSE found[1]
        countryCode == found[2]
    IN  /\ AuthFailedTotal' = VecAdd(AuthFailedTotal,
              <<e.Server, e.Username, e.ClientIP, country, countryCode>>, 1)
        /\ UNCHANGED <<sessions, lastDisconnects, workerContext, SessionInfo,
                       ActiveSessions, ConnectionsTotal, ReconnectsTotal,
                       SessionDuration, ProblematicSessionsTotal,
                       DisconnectionsTotal, ReceivedBytesTotal, SentBytesTotal,
                       ConnectionsByCountry>>

(***************************************************************************)
(* Worker signals                                                          *)
(***************************************************************************)
\* variant: the handler always starts from a fresh context
getOrCreateWorkerContext_AlwaysNew(key, e) ==
    WorkerContext(e.Username, e.ClientIP, e.Server, e.Timestamp)

\* the context the handler then updates: the existing one, or a fresh one
getOrCreateWorkerContext(key, e) ==
    IF key \in DOMAIN workerContext
    THEN workerContext[key]
    ELSE WorkerContext(e.Username, e.ClientIP, e.Server, e.Timestamp)

WorkerUnchanged ==
    UNCHANGED <<sessions, lastDisconnects, SessionInfo, ActiveSessions,
                ConnectionsTotal, ReconnectsTotal, SessionDuration,
                ProblematicSessionsTotal, DisconnectionsTotal,
                ReceivedBytesTotal, SentBytesTotal, ConnectionsByCountry,
                AuthFailedTotal>>

handleByePacket(e) ==
    LET key == workerContextKey(e.Server, e.Username, e.ClientIP)
        ctx == getOrCreateWorkerContext(key, e)
    IN  /\ workerContext' = MapPut(workerContext, key,
              [ctx EXCEPT !.HadBye = TRUE, !.LastUpdate = e.Timestamp])
        /\ WorkerUnchanged

handleDPDWarning(e) ==
    LET key == workerContextKey(e.Server, e.Username, e.ClientIP)
        ctx == getOrCreateWorkerContext(key, e)
    IN  /\ workerContext' = MapPut(workerContext, key,
              [ctx EXCEPT !.DPDWarning = TRUE, !.DPDSeconds = e.DPDSeconds,
                          !.LastUpdate = e.Timestamp])
        /\ WorkerUnchanged

\* variant: the IP-less context is created only when the user has no context
handleSecModClose_OnlyWithoutContext(e) ==
    LET key == workerContextKey(e.Server, e.Username, "")
        ofUser == {k \in DOMAIN workerContext :
                     /\ workerContext[k].Username = e.Username
                     /\ workerContext[k].Server = e.Server}
        marked == [k \in DOMAIN workerContext |->
                     IF k \in ofUser
                     THEN [workerContext[k] EXCEPT !.SecModClose = TRUE,
                                                   !.LastUpdate = e.Timestamp]
                     ELSE workerContext[k]]
    IN  /\ workerContext' =
              IF ofUser # {}
              THEN marked
              ELSE MapPut(marked, key,
                     [WorkerContext(e.Username, "", e.Server, e.Timestamp)
                        EXCEPT !.SecModClose = TRUE])
        /\ WorkerUnchanged

handleSecModClose(e) ==
    LET key == workerContextKey(e.Server, e.Username, "")
        marked == [k \in DOMAIN workerContext |->
                     IF /\ workerContext[k].Username = e.Username
                        /\ workerContext[k].Server = e.Server
                     THEN [workerContext[k] EXCEPT !.SecModClose = TRUE,
                                                   !.LastUpdate = e.Timestamp]
                     ELSE workerContext[k]]
    IN  /\ workerContext' =
              IF key \in DOMAIN marked
              THEN marked
              ELSE MapPut(marked, key,
                     [WorkerContext(e.Username, "", e.Server, e.Timestamp)
                        EXCEPT !.SecModClose = TRUE])
        /\ WorkerUnchanged

(***************************************************************************)
(* ProcessEvent                                                            *)
(***************************************************************************)
\* an event kind the switch of ProcessEvent has no case for
handleNothing(e) ==
    /\ UNCHANGED <<sessions, lastDisconnects, workerContext, SessionInfo,
                   ActiveSessions, ConnectionsTotal, ReconnectsTotal,
                   SessionDuration, ProblematicSessionsTotal,
                   DisconnectionsTotal, ReceivedBytesTotal, SentBytesTotal,
                   ConnectionsByCountry, AuthFailedTotal>>

\* the switch of ProcessEvent
Dispatch(e) ==
    CASE e.Type = EventUserLogin      -> handleLogin(e)
      [] e.Type = EventUserDisconnect -> handleDisconnect(e)
      [] e.Type = EventSessionStart   -> handleSessionStart(e)
      [] e.Type = EventVPNIPAssigned  -> handleVPNIP(e)
      [] e.Type = EventAuthFailed     -> handleAuthFailed(e)
      [] e.Type = EventByePacket      -> handleByePacket(e)
      [] e.Type = EventDPDWarning     -> handleDPDWarning(e)
      [] e.Type = EventSecModClose    -> handleSecModClose(e)
      [] OTHER                        -> handleNothing(e)

\* variant: the gauge is set inside the cases of the switch
ProcessEvent_SetInCases(e) ==
    /\ LastEventTimestamp' =
          IF e.Type \in {EventUserLogin, EventUserDisconnect, EventSessionStart,
                         EventVPNIPAssigned, EventByePacket, EventDPDWarning,
                         EventSecModClose}
          THEN e.Timestamp ELSE LastEventTimestamp
    /\ Dispatch(e)

ProcessEvent(e) ==
    /\ LastEventTimestamp' = e.Timestamp
    /\ Dispatch(e)

(***************************************************************************)
(* CleanupOldDisconnects, run by the ticker goroutine of main.  `now` is   *)
(* the reading of time.Now(); the wall clock never runs backwards.         *)
(***************************************************************************)
\* the DisconnectRecords the first loop removes
OldRecords(now) ==
    {k \in DOMAIN lastDisconnects :
        now - lastDisconnects[k].Timestamp > ReconnectWindow * 2}

\* variant: a context is old at 10 minutes exactly
OldContexts_Inclusive(now) ==
    {k \in DOMAIN workerContext :
        now - workerContext[k].LastUpdate >= ReconnectWindow * 2}

\* the WorkerContexts the second loop removes
OldContexts(now) ==
    {k \in DOMAIN workerContext :
        now - workerContext[k].LastUpdate > ReconnectWindow * 2}

\* variant: the age is computed as StartTime.Sub(now)
StaleSessions_Reversed(now) ==
    {k \in DOMAIN sessions :
        /\ ~IsSidKey(k)
        /\ sessions[k].StartTime - now > MaxSessionAge}

\* the primary sessions the third loop removes
StaleSessions(now) ==
    {k \in DOMAIN sessions :
        /\ ~IsSidKey(k)
        /\ now - sessions[k].StartTime > MaxSessionAge}

\* variant: the entry deleted is the one the Login set, without VPN IP
SessionInfoLabels_AsAtLogin(session) ==
    <<session.Server, session.Username, "", session.Country, "">>

\* the label values of the session-info entry of a Session
SessionInfoLabels(session) ==
    <<session.Server, session.Username, session.VpnIP, session.Country, "">>

\* variant: the stale session's metrics are cleaned but delete(c.sessions, key)
\* is missing
CleanupOldDisconnects_KeepSession(now) ==
    LET stale == StaleSessions(now)
        staleLabels == {<<sessions[k].Server, sessions[k].Username>> : k \in stale}
        staleOf(l) == {k \in stale : <<sessions[k].Server, sessions[k].Username>> = l}
    IN  /\ lastDisconnects' = MapDeleteAll(lastDisconnects, OldRecords(now))
        /\ workerContext' = MapDeleteAll(workerContext, OldContexts(now))
        /\ SessionInfo' = MapDeleteAll(SessionInfo,
              {SessionInfoLabels(sessions[k]) : k \in stale})
        /\ ActiveSessions' =
              [l \in DOMAIN ActiveSessions \cup staleLabels |->
                  VecValue(ActiveSessions, l) - Cardinality(staleOf(l))]
        /\ sessions' = sessions
        /\ UNCHANGED <<ConnectionsTotal, ReconnectsTotal, SessionDuration,
                       ProblematicSessionsTotal, DisconnectionsTotal,
                       ReceivedBytesTotal, SentBytesTotal, ConnectionsByCountry,
                       AuthFailedTotal, LastEventTimestamp>>

CleanupOldDisconnects(now) ==
    LET stale == StaleSessions(now)
        staleLabels == {<<sessions[k].Server, sessions[k].Username>> : k \in stale}
        staleOf(l) == {k \in stale : <<sessions[k].Server, sessions[k].Username>> = l}
    IN  /\ lastDisconnects' = MapDeleteAll(lastDisconnects, OldRecords(now))
        /\ workerContext' = MapDeleteAll(workerContext, OldContexts(now))
        /\ SessionInfo' = MapDeleteAll(SessionInfo,
              {SessionInfoLabels(sessions[k]) : k \in stale})
        /\ ActiveSessions' =
              [l \in DOMAIN ActiveSessions \cup staleLabels |->
                  VecValue(ActiveSessions, l) - Cardinality(staleOf(l))]
        /\ sessions' = MapDeleteAll(sessions, stale)
        /\ UNCHANGED <<ConnectionsTotal, ReconnectsTotal, SessionDuration,
                       ProblematicSessionsTotal, DisconnectionsTotal,
                       ReceivedBytesTotal, SentBytesTotal, ConnectionsByCountry,
                       AuthFailedTotal, LastEventTimestamp>>

(***************************************************************************)
(* The events the log delivers and the next-state relation.                *)
(***************************************************************************)
\* alice connects from one address on two ports and sends worker signals
\* from two addresses; bob is a second user with one connection
LoginEvents ==
    {LoginEvent(ts, "ocserv", "alice", "62.4.32.53", p) :
        ts \in EventTimes, p \in Ports}
    \cup {LoginEvent(0, "ocserv", "bob", "172.30.30.30", 30595)}

DisconnectEvents ==
    {DisconnectEvent(ts, "ocserv", "alice", "62.4.32.53", p, r, 100, 200) :
        ts \in EventTimes, p \in Ports, r \in Reasons}
    \cup {DisconnectEvent(45, "ocserv", "bob", "172.30.30.30", 30595,
                          "unspecified error", 7, 0)}

SessionStartEvents ==
    {SessionStartEvent(0, "ocserv", "alice", sid) : sid \in SessionIDs}

SessionInvalidateEvents ==
    {SessionInvalidateEvent(45, "ocserv", "alice", sid) : sid \in SessionIDs}

VPNIPEvents ==
    {VPNIPEvent(45, "ocserv", u, v) : u \in Usernames, v \in VpnIPs}

\* the last two come from addresses the resolver has no country for: one
\* the database has no name for, one (of a cookie failure) it cannot parse
AuthFailedEvents ==
    {AuthFailedEvent(45, "ocserv", "", "172.30.30.30", 56078),
     AuthFailedEvent(300, "ocserv", "alice", "62.4.32.53", 30595),
     AuthFailedEvent(45, "ocserv", "bob", "203.0.113.9", 56078),
     AuthFailedEvent(45, "ocserv", "", "fe80::1%eth0", 0)}

ByePacketEvents ==
    {ByePacketEvent(ts, "ocserv", "alice", "62.4.32.53") : ts \in {0, 45}}
    \cup {ByePacketEvent(45, "ocserv", "alice", "172.30.30.30")}

DPDWarningEvents ==
    {DPDWarningEvent(ts, "ocserv", "alice", "62.4.32.53", 137) : ts \in {0, 45}}

SecModCloseEvents ==
    {SecModCloseEvent(ts, "ocserv", "alice", "yKsy7b") : ts \in {0, 45}}
    \cup {SecModCloseEvent(45, "ocserv", "bob", "u7N/JC")}

\* the events of DeepSpec: the session life cycle of one user
DeepLoginEvents ==
    {LoginEvent(ts, "ocserv", "alice", "62.4.32.53", p) :
        ts \in EventTimes, p \in Ports}

DeepDisconnectEvents ==
    {DisconnectEvent(ts, "ocserv", "alice", "62.4.32.53", p,
                     "user disconnected", 100, 200) :
        ts \in EventTimes, p \in Ports}

DeepVPNIPEvents == {VPNIPEvent(45, "ocserv", "alice", "10.0.0.5")}

\* one entry read from the log and handed to ProcessEvent
Deliver(e) ==
    /\ nEvents' = nEvents + 1
    /\ last' = e
    /\ prev' = Snapshot
    /\ everDisconnected' =
          IF e.Type = EventUserDisconnect
          THEN MapPut(everDisconnected, userKeyOf(e.Server, e.Username), e.Timestamp)
          ELSE everDisconnected
    /\ paused' =
          CASE e.Type = EventSecModClose ->
                  paused \cup {userKeyOf(e.Server, e.Username)}
            [] e.Type = EventUserDisconnect ->
                  paused \ {userKeyOf(e.Server, e.Username)}
            [] OTHER -> paused
    /\ ProcessEvent(e)
    /\ UNCHANGED <<geoIP, mainVars, occtlVars, clock>>
    /\ UNCHANGED lockVars

\* one tick of the cleanup goroutine
Tick(now) ==
    /\ nEvents' = nEvents + 1
    /\ now >= clock
    /\ clock' = now
    /\ last' = Event("Cleanup", now, "")
    /\ prev' = Snapshot
    /\ paused' =
          paused \ {userKeyOf(workerContext[k].Server, workerContext[k].Username) :
                       k \in OldContexts(now)}
    /\ CleanupOldDisconnects(now)
    /\ UNCHANGED <<geoIP, mainVars, occtlVars, everDisconnected>>
    /\ UNCHANGED lockVars

Login ==
    /\ nEvents < MaxEvents
    /\ \E e \in LoginEvents : Deliver(e)
Disconnect ==
    /\ nEvents < MaxEvents
    /\ \E e \in DisconnectEvents : Deliver(e)
SessionStart ==
    /\ nEvents < MaxEvents
    /\ \E e \in SessionStartEvents : Deliver(e)
SessionInvalidate ==
    /\ nEvents < MaxEvents
    /\ \E e \in SessionInvalidateEvents : Deliver(e)
VpnIpAssigned ==
    /\ nEvents < MaxEvents
    /\ \E e \in VPNIPEvents : Deliver(e)
AuthFailed ==
    /\ nEvents < MaxEvents
    /\ \E e \in AuthFailedEvents : Deliver(e)
ByePacket ==
    /\ nEvents < MaxEvents
    /\ \E e \in ByePacketEvents : Deliver(e)
DpdWarning ==
    /\ nEvents < MaxEvents
    /\ \E e \in DPDWarningEvents : Deliver(e)
SessionPaused ==
    /\ nEvents < MaxEvents
    /\ \E e \in SecModCloseEvents : Deliver(e)
Sweeper ==
    /\ nEvents < MaxEvents
    /\ \E now \in SweepTimes : Tick(now)

Next ==
    \/ Login
    \/ Disconnect
    \/ SessionStart
    \/ SessionInvalidate
    \/ VpnIpAssigned
    \/ AuthFailed
    \/ ByePacket
    \/ DpdWarning
    \/ SessionPaused
    \/ Sweeper

Spec == Init /\ [][Next]_vars

\* the session life cycle of one user, one operation deeper
DeepLogin ==
    /\ nEvents < MaxDeepEvents
    /\ \E e \in DeepLoginEvents : Deliver(e)
DeepDisconnect ==
    /\ nEvents < MaxDeepEvents
    /\ \E e \in DeepDisconnectEvents : Deliver(e)
DeepSessionStart ==
    /\ nEvents < MaxDeepEvents
    /\ \E e \in SessionStartEvents : Deliver(e)
DeepVpnIpAssigned ==
    /\ nEvents < MaxDeepEvents
    /\ \E e \in DeepVPNIPEvents : Deliver(e)
DeepSweeper ==
    /\ nEvents < MaxDeepEvents
    /\ \E now \in SweepTimes : Tick(now)

DeepNext ==
    \/ DeepLogin
    \/ DeepDisconnect
    \/ DeepSessionStart
    \/ DeepVpnIpAssigned
    \/ DeepSweeper

DeepSpec == Init /\ [][DeepNext]_vars


(***************************************************************************)
(* LiveSpec: a few events arrive, then none; the ticker of the cleanup     *)
(* goroutine keeps firing and the wall clock passes every age limit.       *)
(***************************************************************************)
\* the last reading is later than every event timestamp by more than the
\* maximum session age
LiveSweepTimes == SweepTimes \cup {86701}

LiveEvents ==
    SessionStartEvents \cup DeepLoginEvents \cup DeepDisconnectEvents
    \cup ByePacketEvents \cup SecModCloseEvents

LiveEvent ==
    /\ nEvents < MaxLiveEvents
    /\ \E e \in LiveEvents : Deliver(e)

\* one tick of the cleanup goroutine, not counted as an event
LiveTick(now) ==
    /\ now >= clock
    /\ clock' = now
    /\ last' = Event("Cleanup", now, "")
    /\ prev' = Snapshot
    /\ paused' =
          paused \ {userKeyOf(workerContext[k].Server, workerContext[k].Username) :
                       k \in OldContexts(now)}
    /\ CleanupOldDisconnects(now)
    /\ UNCHANGED <<geoIP, mainVars, occtlVars, everDisconnected, nEvents>>
    /\ UNCHANGED lockVars

LiveSweeper == \E now \in LiveSweepTimes : LiveTick(now)

LiveNext ==
    \/ LiveEvent
    \/ LiveSweeper

\* the ticker fires every 10 minutes for as long as the process runs
LiveSpec == Init /\ [][LiveNext]_vars /\ WF_vars(LiveSweeper)

(***************************************************************************)
(* LockSpec: the goroutines of the process and Collector.mu.  Each         *)
(* operation is the sequence of steps its code takes; c.mu.Lock() with     *)
(* defer c.mu.Unlock() is a "Lock" step first and an "Unlock" step last.   *)
(* sync.RWMutex is not reentrant: a Lock step waits until no goroutine,    *)
(* the caller included, holds the mutex.                                   *)
(***************************************************************************)
\* variant: the helper takes the lock itself
getOrCreateProgram_Locking == <<"Lock", "getOrCreateWorkerContext", "Unlock">>

\* getOrCreateWorkerContext, called with the lock held, takes no lock
getOrCreateProgram == <<"getOrCreateWorkerContext">>

\* variant: the cleanup pass runs without the lock
CleanupProgram_NoLock ==
    <<"timeNow", "sweepDisconnects", "sweepWorkerContext", "sweepSessions">>

\* CleanupOldDisconnects: the lock, the clock reading and the three loops
CleanupProgram ==
    <<"Lock", "timeNow", "sweepDisconnects", "sweepWorkerContext",
      "sweepSessions", "Unlock">>

\* the steps of an operation, in order
Program(o) ==
    CASE o.Type = "Cleanup" -> CleanupProgram
      [] o.Type = "GetActiveSessions" -> <<"RLock", "countSessions", "RUnlock">>
      [] o.Type = EventAuthFailed -> <<"handle">>
      [] o.Type = EventByePacket ->
            <<"Lock">> \o getOrCreateProgram \o <<"setHadBye", "Unlock">>
      [] o.Type = EventDPDWarning ->
            <<"Lock">> \o getOrCreateProgram \o <<"setDPDWarning", "Unlock">>
      [] o.Type \in {EventUserLogin, EventUserDisconnect, EventSessionStart,
                     EventVPNIPAssigned, EventSecModClose} ->
            <<"Lock", "handle", "Unlock">>
      [] OTHER -> << >>

\* the step goroutine g takes next
NextInstr(g) == IF pc[g] = 0 THEN "idle" ELSE Program(op[g])[pc[g]]

\* g has taken its step
Advance(g) ==
    pc' = [pc EXCEPT ![g] = IF pc[g] = Len(Program(op[g])) THEN 0 ELSE pc[g] + 1]

\* the first step of an operation records it and the state it starts from
Enter(g) ==
    IF pc[g] = 1
    THEN last' = op[g] /\ prev' = Snapshot
    ELSE UNCHANGED <<last, prev>>

\* a goroutine starts operation o
Start(g, o) ==
    /\ pc[g] = 0
    /\ nEvents < MaxLockOps
    /\ nEvents' = nEvents + 1
    /\ op' = [op EXCEPT ![g] = o]
    /\ pc' = [pc EXCEPT ![g] = IF Program(o) = << >> THEN 0 ELSE 1]

LockEvents ==
    {LoginEvent(0, "ocserv", "alice", "62.4.32.53", 30595),
     DisconnectEvent(45, "ocserv", "alice", "62.4.32.53", 30595,
                     "unspecified error", 100, 200),
     SessionStartEvent(0, "ocserv", "alice", "yKsy7b"),
     SessionInvalidateEvent(45, "ocserv", "alice", "yKsy7b"),
     VPNIPEvent(45, "ocserv", "alice", "10.0.0.5"),
     AuthFailedEvent(45, "ocserv", "", "172.30.30.30", 56078),
     ByePacketEvent(0, "ocserv", "alice", "62.4.32.53"),
     ByePacketEvent(45, "ocserv", "alice", "62.4.32.53"),
     DPDWarningEvent(0, "ocserv", "alice", "62.4.32.53", 137),
     SecModCloseEvent(45, "ocserv", "alice", "yKsy7b")}

\* ProcessLogLine: the log reader has an entry; ProcessEvent sets the
\* last-event gauge before the handler is called
ReadLogLine ==
    /\ \E e \in LockEvents :
          /\ Start("reader", e)
          /\ LastEventTimestamp' = e.Timestamp
    /\ UNCHANGED <<sessions, lastDisconnects, workerContext, geoIP, mainVars, occtlVars, clock,
                   SessionInfo, ActiveSessions, ConnectionsTotal,
                   ReconnectsTotal, SessionDuration, ProblematicSessionsTotal,
                   DisconnectionsTotal, ReceivedBytesTotal, SentBytesTotal,
                   ConnectionsByCountry, AuthFailedTotal,
                   last, prev, everDisconnected, paused, mu, locals>>

\* the ticker of the cleanup goroutine fires
TickerFires ==
    /\ Start("cleanup", Event("Cleanup", 0, ""))
    /\ UNCHANGED <<tables, metrics, geoIP, mainVars, occtlVars, clock,
                   last, prev, everDisconnected, paused, mu, locals>>

\* GetActiveSessions is called
AccessorCalled ==
    /\ Start("accessor", Event("GetActiveSessions", 0, ""))
    /\ UNCHANGED <<tables, metrics, geoIP, mainVars, occtlVars, clock,
                   last, prev, everDisconnected, paused, mu, locals>>

\* what a step that touches neither table nor metric leaves alone
LockFrame ==
    UNCHANGED <<tables, metrics, geoIP, mainVars, occtlVars, clock, nEvents, everDisconnected,
                paused, op, locals>>

\* c.mu.Lock()
LockStep(g) ==
    /\ NextInstr(g) = "Lock"
    /\ mu.writer = "" /\ mu.readers = {}
    /\ mu' = [mu EXCEPT !.writer = g]
    /\ Enter(g) /\ Advance(g) /\ LockFrame

\* c.mu.Unlock()
UnlockStep(g) ==
    /\ NextInstr(g) = "Unlock"
    /\ mu.writer = g
    /\ mu' = [mu EXCEPT !.writer = ""]
    /\ Enter(g) /\ Advance(g) /\ LockFrame

\* c.mu.RLock()
RLockStep(g) ==
    /\ NextInstr(g) = "RLock"
    /\ mu.writer = ""
    /\ mu' = [mu EXCEPT !.readers = @ \cup {g}]
    /\ Enter(g) /\ Advance(g) /\ LockFrame

\* c.mu.RUnlock()
RUnlockStep(g) ==
    /\ NextInstr(g) = "RUnlock"
    /\ g \in mu.readers
    /\ mu' = [mu EXCEPT !.readers = @ \ {g}]
    /\ Enter(g) /\ Advance(g) /\ LockFrame

\* the body of a handler other than handleByePacket and handleDPDWarning
HandleStep(g) ==
    /\ NextInstr(g) = "handle"
    /\ Dispatch(op[g])
    /\ Enter(g) /\ Advance(g)
    /\ UNCHANGED <<LastEventTimestamp, geoIP, mainVars, occtlVars, clock, nEvents,
                   everDisconnected, paused, mu, op, locals>>

\* ctx := c.getOrCreateWorkerContext(key, event)
GetOrCreateStep(g) ==
    LET e == op[g]
        key == workerContextKey(e.Server, e.Username, e.ClientIP)
    IN  /\ NextInstr(g) = "getOrCreateWorkerContext"
        /\ workerContext' =
              MapPut(workerContext, key, getOrCreateWorkerContext(key, e))
        /\ WorkerUnchanged
        /\ Enter(g) /\ Advance(g)
        /\ UNCHANGED <<LastEventTimestamp, geoIP, mainVars, occtlVars, clock, nEvents,
                       everDisconnected, paused, mu, op, locals>>

\* the key under which the worker signal handled by g keeps its context
CtxKey(g) == workerContextKey(op[g].Server, op[g].Username, op[g].ClientIP)

\* what a step of a worker signal handler leaves alone
SignalFrame(g) ==
    /\ WorkerUnchanged
    /\ Enter(g) /\ Advance(g)
    /\ UNCHANGED <<LastEventTimestamp, geoIP, mainVars, occtlVars, clock, nEvents,
                   everDisconnected, paused, mu, op, locals>>

\* ctx.HadBye = true; ctx.LastUpdate = event.Timestamp: writes through the
\* pointer ctx, which reach the table while the table holds the context
SetHadByeStep(g) ==
    /\ NextInstr(g) = "setHadBye"
    /\ workerContext' =
          IF CtxKey(g) \in DOMAIN workerContext
          THEN [workerContext EXCEPT
                  ![CtxKey(g)].HadBye = TRUE,
                  ![CtxKey(g)].LastUpdate = op[g].Timestamp]
          ELSE workerContext
    /\ SignalFrame(g)

\* ctx.DPDWarning = true; ctx.DPDSeconds = ...; ctx.LastUpdate = ...
SetDPDWarningStep(g) ==
    /\ NextInstr(g) = "setDPDWarning"
    /\ workerContext' =
          IF CtxKey(g) \in DOMAIN workerContext
          THEN [workerContext EXCEPT
                  ![CtxKey(g)].DPDWarning = TRUE,
                  ![CtxKey(g)].DPDSeconds = op[g].DPDSeconds,
                  ![CtxKey(g)].LastUpdate = op[g].Timestamp]
          ELSE workerContext
    /\ SignalFrame(g)

\* now := time.Now()
TimeNowStep(g) ==
    /\ NextInstr(g) = "timeNow"
    /\ \E now \in SweepTimes :
          /\ now >= clock
          /\ clock' = now
          /\ locals' = [locals EXCEPT ![g] = now]
    /\ Enter(g) /\ Advance(g)
    /\ UNCHANGED <<tables, metrics, geoIP, mainVars, occtlVars, nEvents, everDisconnected,
                   paused, mu, op>>

\* the first loop of CleanupOldDisconnects
SweepDisconnectsStep(g) ==
    /\ NextInstr(g) = "sweepDisconnects"
    /\ lastDisconnects' = MapDeleteAll(lastDisconnects, OldRecords(locals[g]))
    /\ Enter(g) /\ Advance(g)
    /\ UNCHANGED <<sessions, workerContext, metrics, geoIP, mainVars, occtlVars, clock, nEvents,
                   everDisconnected, paused, mu, op, locals>>

\* the second loop
SweepWorkerContextStep(g) ==
    /\ NextInstr(g) = "sweepWorkerContext"
    /\ workerContext' = MapDeleteAll(workerContext, OldContexts(locals[g]))
    /\ Enter(g) /\ Advance(g)
    /\ UNCHANGED <<sessions, lastDisconnects, metrics, geoIP, mainVars, occtlVars, clock, nEvents,
                   everDisconnected, paused, mu, op, locals>>

\* the third loop
SweepSessionsStep(g) ==
    LET stale == StaleSessions(locals[g])
        staleLabels == {<<sessions[k].Server, sessions[k].Username>> : k \in stale}
        staleOf(l) == {k \in stale : <<sessions[k].Server, sessions[k].Username>> = l}
    IN  /\ NextInstr(g) = "sweepSessions"
        /\ SessionInfo' = MapDeleteAll(SessionInfo,
              {SessionInfoLabels(sessions[k]) : k \in stale})
        /\ ActiveSessions' =
              [l \in DOMAIN ActiveSessions \cup staleLabels |->
                  VecValue(ActiveSessions, l) - Cardinality(staleOf(l))]
        /\ sessions' = MapDeleteAll(sessions, stale)
        /\ Enter(g) /\ Advance(g)
        /\ UNCHANGED <<lastDisconnects, workerContext, ConnectionsTotal,
                       ReconnectsTotal, SessionDuration,
                       ProblematicSessionsTotal, DisconnectionsTotal,
                       ReceivedBytesTotal, SentBytesTotal,
                       ConnectionsByCountry, AuthFailedTotal,
                       LastEventTimestamp, geoIP, mainVars, occtlVars, clock, nEvents,
                       everDisconnected, paused, mu, op, locals>>

\* the loop of GetActiveSessions
CountSessionsStep(g) ==
    /\ NextInstr(g) = "countSessions"
    /\ locals' = [locals EXCEPT ![g] =
          Cardinality({k \in DOMAIN sessions :
                          Len(k) > 4 /\ SubSeq(k, 1, 4) # "sid:"})]
    /\ Enter(g) /\ Advance(g)
    /\ UNCHANGED <<tables, metrics, geoIP, mainVars, occtlVars, clock, nEvents, everDisconnected,
                   paused, mu, op>>

\* the next step of goroutine g
GoStep(g) ==
    \/ LockStep(g)
    \/ UnlockStep(g)
    \/ RLockStep(g)
    \/ RUnlockStep(g)
    \/ HandleStep(g)
    \/ GetOrCreateStep(g)
    \/ SetHadByeStep(g)
    \/ SetDPDWarningStep(g)
    \/ TimeNowStep(g)
    \/ SweepDisconnectsStep(g)
    \/ SweepWorkerContextStep(g)
    \/ SweepSessionsStep(g)
    \/ CountSessionsStep(g)

LockNext ==
    \/ ReadLogLine
    \/ TickerFires
    \/ AccessorCalled
    \/ \E g \in Goroutines : GoStep(g)

\* a goroutine that can take a step is eventually scheduled
LockSpec ==
    Init /\ [][LockNext]_vars /\ \A g \in Goroutines : WF_vars(GoStep(g))

(***************************************************************************)
(* Observations the properties below are stated with.  `last` is the       *)
(* operation that led to the current state and `prev` the state before it. *)
(***************************************************************************)
IsLogin == last.Type = EventUserLogin
IsDisconnect == last.Type = EventUserDisconnect
IsCleanup == last.Type = "Cleanup"

lastUser == <<last.Server, last.Username>>
lastUserKey == userKeyOf(last.Server, last.Username)
lastSessionKey == sessionKey(last.Server, last.Username, last.ClientIP, last.Port)
\* the Disconnect or Login processed last addressed a Session that existed
lastFound == lastSessionKey \in DOMAIN prev.sessions

\* C1: a Disconnect that finds its Session removes exactly one session-info
\* entry and lowers the active-session gauge of its user by 1; a Disconnect
\* that finds none changes neither the entries nor the gauge.
C1_DisconnectGaugeEffect ==
    IsDisconnect =>
        IF lastFound
        THEN /\ DOMAIN SessionInfo \subseteq DOMAIN prev.SessionInfo
             /\ Cardinality(DOMAIN prev.SessionInfo \ DOMAIN SessionInfo) = 1
             /\ VecValue(ActiveSessions, lastUser)
                   = VecValue(prev.ActiveSessions, lastUser) - 1
        ELSE /\ SessionInfo = prev.SessionInfo
             /\ ActiveSessions = prev.ActiveSessions

\* C2: a Login whose timestamp is less than the reconnect window after the
\* timestamp of the Disconnect processed last for the same user increments
\* the reconnect counter of that user by one, whatever cleanup passes ran
\* in between.
C2_ReconnectCounted ==
    (/\ IsLogin
     /\ lastUserKey \in DOMAIN everDisconnected
     /\ last.Timestamp - everDisconnected[lastUserKey] < ReconnectWindow)
    => VecValue(ReconnectsTotal, lastUser)
          = VecValue(prev.ReconnectsTotal, lastUser) + 1

\* C3: a Login of a user with no DisconnectRecord (none was ever written, or
\* it has been evicted) leaves the reconnect counters as they were; and a
\* user no Disconnect was processed for has no DisconnectRecord.
C3_NoDisconnectNoReconnect ==
    /\ DOMAIN lastDisconnects \subseteq DOMAIN everDisconnected
    /\ (IsLogin /\ lastUserKey \notin DOMAIN prev.lastDisconnects)
          => ReconnectsTotal = prev.ReconnectsTotal

\* C3 witness: a Login processed after the user's DisconnectRecord was evicted
C3_Witness ==
    /\ IsLogin
    /\ lastUserKey \notin DOMAIN prev.lastDisconnects
    /\ lastUserKey \in DOMAIN everDisconnected

\* the state reached from empty tables by Login(u, a, p), VpnIpAssigned(u, vpn)
\* and Disconnect(u, a, p, "user disconnected", rx, tx), in this order: the
\* third operation is that Disconnect and it found a Session carrying a VPN IP
AfterRoundTrip ==
    /\ nEvents = 3
    /\ IsDisconnect
    /\ last.Reason = "user disconnected"
    /\ lastFound
    /\ prev.sessions[lastSessionKey].VpnIP # ""

\* C4 as stated: after the round trip the Session table and the session-info
\* gauge are empty, the byte totals are rx and tx, and the duration histogram
\* holds one observation, whatever the timestamps of the three events.
C4_RoundTripAnyTimestamps ==
    AfterRoundTrip =>
        /\ sessions = EmptyMap
        /\ SessionInfo = EmptyMap
        /\ VecValue(ReceivedBytesTotal, lastUser) = last.RxBytes
        /\ VecValue(SentBytesTotal, lastUser) = last.TxBytes
        /\ VecValue(SessionDuration, lastUser) = 1

\* C4 amended: the same, with one observation in the duration histogram when
\* the Disconnect's timestamp is later than the Login's and none otherwise.
C4_RoundTrip ==
    AfterRoundTrip =>
        /\ sessions = EmptyMap
        /\ SessionInfo = EmptyMap
        /\ VecValue(ReceivedBytesTotal, lastUser) = last.RxBytes
        /\ VecValue(SentBytesTotal, lastUser) = last.TxBytes
        /\ VecValue(SessionDuration, lastUser) =
              IF last.Timestamp > prev.sessions[lastSessionKey].StartTime
              THEN 1 ELSE 0

\* C4 witness: a round trip whose Disconnect is later than its Login
C4_Witness ==
    /\ AfterRoundTrip
    /\ last.Timestamp > prev.sessions[lastSessionKey].StartTime
    /\ last.RxBytes = 100
    /\ last.TxBytes = 200

\* the primary Sessions of a table that are past the maximum age at `now`
StaleAt(table, now) ==
    {k \in DOMAIN table :
        ~IsSidKey(k) /\ now - table[k].StartTime > MaxSessionAge}

\* the (server, username) pairs of the model
UserLabels == {<<s, u>> : s \in Servers, u \in Usernames}

\* C5: a cleanup pass removes every primary Session older than the maximum
\* age, and it lowers the active-session gauge of each user by the number of
\* that user's Sessions it removed: once per evicted Session, and not at all
\* in a pass that evicts none (an evicted Session is gone for later passes).
C5_StaleSessionEvictedOnce ==
    IsCleanup =>
        /\ StaleAt(prev.sessions, last.Timestamp) \cap DOMAIN sessions = {}
        /\ StaleAt(sessions, last.Timestamp) = {}
        /\ \A l \in UserLabels :
              VecValue(ActiveSessions, l) =
                 VecValue(prev.ActiveSessions, l)
                 - Cardinality({k \in DOMAIN prev.sessions \ DOMAIN sessions :
                                  <<prev.sessions[k].Server,
                                    prev.sessions[k].Username>> = l})

\* C5 witness: a further cleanup pass after the pass that evicted the only
\* Session (no Disconnect was ever processed)
C5_Witness ==
    /\ IsCleanup
    /\ prev.last.Type = "Cleanup"
    /\ prev.sessions = EmptyMap
    /\ ConnectionsTotal # EmptyMap
    /\ DisconnectionsTotal = EmptyMap
    /\ \A l \in UserLabels : VecValue(ActiveSessions, l) = 0

\* the worker contexts enrichment consults for the Disconnect processed
\* last: (server, username, client IP) and (server, username, "")
ConsultedContexts ==
    {prev.workerContext[k] :
        k \in {workerContextKey(last.Server, last.Username, last.ClientIP),
               workerContextKey(last.Server, last.Username, "")}
              \cap DOMAIN prev.workerContext}

\* the reason the stated priority gives the Disconnect processed last
ExpectedReason ==
    IF last.Reason # "unspecified error" THEN last.Reason
    ELSE IF \E c \in ConsultedContexts : c.SecModClose THEN "mobile sleep"
    ELSE IF \E c \in ConsultedContexts : c.HadBye THEN "client bye"
    ELSE IF \E c \in ConsultedContexts : c.DPDWarning THEN "dpd issue"
    ELSE last.Reason

\* every reason label a disconnection can be counted under
ReasonLabels == Reasons \cup {"mobile sleep", "client bye", "dpd issue"}

\* the reason labels whose disconnection counter the last operation raised by 1
CountedReasons ==
    {r \in ReasonLabels :
        VecValue(DisconnectionsTotal, <<last.Server, last.Username, r>>)
           = VecValue(prev.DisconnectionsTotal,
                      <<last.Server, last.Username, r>>) + 1}

\* C6: a Disconnect with raw reason "unspecified error" is counted under the
\* reason the priority pause > bye > DPD gives over the two consulted
\* contexts, and under no other reason.
C6_EnrichmentPriority ==
    (IsDisconnect /\ last.Reason = "unspecified error")
        => CountedReasons = {ExpectedReason}

\* C6 witness: such a Disconnect with a context holding both pause and bye
C6_Witness ==
    /\ IsDisconnect
    /\ last.Reason = "unspecified error"
    /\ \E c \in ConsultedContexts : c.SecModClose /\ c.HadBye
    /\ CountedReasons = {"mobile sleep"}

\* the duration handleDisconnect computed for the Disconnect processed last
lastDuration == last.Timestamp - prev.sessions[lastSessionKey].StartTime

\* C7: a Disconnect raises the problematic-session counter (by one, under
\* the enriched reason) exactly when the Session was found, 0 < duration <
\* 60 s and the enriched reason is none of "user disconnected", "client
\* bye", "mobile sleep", ""; otherwise the counter is unchanged.
C7_ProblematicCounting ==
    IsDisconnect =>
      /\ CountedReasons # {}
      /\ \A r \in CountedReasons :
            ProblematicSessionsTotal =
               IF /\ lastFound
                  /\ lastDuration > 0
                  /\ lastDuration < 60
                  /\ r \notin {"user disconnected", "client bye", "mobile sleep", ""}
               THEN VecAdd(prev.ProblematicSessionsTotal,
                           <<last.Server, last.Username, r>>, 1)
               ELSE prev.ProblematicSessionsTotal

\* C7 witness: a 45 s session ended with "dpd issue" is counted
C7_Witness ==
    /\ IsDisconnect
    /\ lastFound
    /\ lastDuration = 45
    /\ CountedReasons = {"dpd issue"}
    /\ VecValue(ProblematicSessionsTotal,
                <<last.Server, last.Username, "dpd issue">>) = 1

\* the last two operations were cleanup passes, with no event in between
TwoSweepsInSuccession == IsCleanup /\ prev.last.Type = "Cleanup"

\* C8 as stated: the second of two cleanup passes in succession changes the
\* size of no table and no gauge.
C8_SecondSweepChangesNothing ==
    TwoSweepsInSuccession =>
        /\ Cardinality(DOMAIN sessions) = Cardinality(DOMAIN prev.sessions)
        /\ Cardinality(DOMAIN lastDisconnects)
              = Cardinality(DOMAIN prev.lastDisconnects)
        /\ Cardinality(DOMAIN workerContext)
              = Cardinality(DOMAIN prev.workerContext)
        /\ SessionInfo = prev.SessionInfo
        /\ ActiveSessions = prev.ActiveSessions

\* C8 amended: the second pass changes no table and no gauge when it reads
\* the same clock value as the first; with a later reading it removes only
\* entries that were within their age limit at the first reading and are past
\* it at the second.
C8_SecondSweepSameClock ==
    TwoSweepsInSuccession =>
        /\ last.Timestamp = prev.last.Timestamp =>
              /\ sessions = prev.sessions
              /\ lastDisconnects = prev.lastDisconnects
              /\ workerContext = prev.workerContext
              /\ SessionInfo = prev.SessionInfo
              /\ ActiveSessions = prev.ActiveSessions
        /\ \A k \in DOMAIN prev.lastDisconnects \ DOMAIN lastDisconnects :
              /\ prev.last.Timestamp - prev.lastDisconnects[k].Timestamp
                    <= 2 * ReconnectWindow
              /\ last.Timestamp - prev.lastDisconnects[k].Timestamp
                    > 2 * ReconnectWindow
        /\ \A k \in DOMAIN prev.workerContext \ DOMAIN workerContext :
              /\ prev.last.Timestamp - prev.workerContext[k].LastUpdate
                    <= 2 * ReconnectWindow
              /\ last.Timestamp - prev.workerContext[k].LastUpdate
                    > 2 * ReconnectWindow
        /\ \A k \in DOMAIN prev.sessions \ DOMAIN sessions :
              /\ prev.last.Timestamp - prev.sessions[k].StartTime <= MaxSessionAge
              /\ last.Timestamp - prev.sessions[k].StartTime > MaxSessionAge

\* C8 witness: two passes in succession at the same clock reading, with an
\* entry in a table that both passes leave in place
C8_Witness ==
    /\ TwoSweepsInSuccession
    /\ last.Timestamp = prev.last.Timestamp
    /\ DOMAIN lastDisconnects \cup DOMAIN workerContext \cup DOMAIN sessions # {}

\* the primary entries of the Session table
PrimaryKeys == {k \in DOMAIN sessions : ~IsSidKey(k)}

\* C9: no two entries of the Session table have the same (server, username,
\* client IP, port); and after a Login the entry under its key has the
\* Login's timestamp as start time and an empty VPN IP, the table holding
\* the keys it held before and this key, with every other entry unchanged.
C9_LastLoginWins ==
    /\ \A k1, k2 \in PrimaryKeys :
          (/\ sessions[k1].Server = sessions[k2].Server
           /\ sessions[k1].Username = sessions[k2].Username
           /\ sessions[k1].ClientIP = sessions[k2].ClientIP
           /\ sessions[k1].Port = sessions[k2].Port) => k1 = k2
    /\ IsLogin =>
          /\ DOMAIN sessions = DOMAIN prev.sessions \cup {lastSessionKey}
          /\ sessions[lastSessionKey].StartTime = last.Timestamp
          /\ sessions[lastSessionKey].VpnIP = ""
          /\ sessions[lastSessionKey].Username = last.Username
          /\ sessions[lastSessionKey].ClientIP = last.ClientIP
          /\ sessions[lastSessionKey].Port = last.Port
          /\ \A k \in DOMAIN prev.sessions \ {lastSessionKey} :
                sessions[k] = prev.sessions[k]

\* C9 witness: a Login under a key whose entry had another start time and a
\* VPN IP assigned
C9_Witness ==
    /\ IsLogin
    /\ lastFound
    /\ prev.sessions[lastSessionKey].VpnIP # ""
    /\ prev.sessions[lastSessionKey].StartTime # last.Timestamp

\* the two worker-context keys handleDisconnect deletes for the last event
lastContextKeys ==
    {workerContextKey(last.Server, last.Username, last.ClientIP),
     workerContextKey(last.Server, last.Username, "")}

\* C10: every Disconnect, whether or not it finds a Session, a WorkerContext
\* or a DisconnectRecord, writes the DisconnectRecord of its user with its
\* timestamp, counts one disconnection under the enriched reason, adds rx
\* and tx to the byte totals and leaves neither WorkerContext key of the user
\* in the table; one that finds no Session leaves the Session table, the
\* duration histogram, the session-info and active-session gauges and the
\* problematic-session counter unchanged.
C10_DisconnectWithoutSession ==
    IsDisconnect =>
        /\ lastUserKey \in DOMAIN lastDisconnects
        /\ lastDisconnects[lastUserKey].Timestamp = last.Timestamp
        /\ CountedReasons = {ExpectedReason}
        /\ VecValue(ReceivedBytesTotal, lastUser)
              = VecValue(prev.ReceivedBytesTotal, lastUser) + last.RxBytes
        /\ VecValue(SentBytesTotal, lastUser)
              = VecValue(prev.SentBytesTotal, lastUser) + last.TxBytes
        /\ lastContextKeys \cap DOMAIN workerContext = {}
        /\ ~lastFound =>
              /\ sessions = prev.sessions
              /\ SessionDuration = prev.SessionDuration
              /\ SessionInfo = prev.SessionInfo
              /\ ActiveSessions = prev.ActiveSessions
              /\ ProblematicSessionsTotal = prev.ProblematicSessionsTotal

\* C10 witness: a Disconnect processed with no Session, no WorkerContext and
\* no DisconnectRecord in the tables
C10_Witness ==
    /\ IsDisconnect
    /\ ~lastFound
    /\ prev.workerContext = EmptyMap
    /\ prev.lastDisconnects = EmptyMap
    /\ CountedReasons = {last.Reason}

(***************************************************************************)
(* VPN IP assignment and the identifier-keyed entries of SessionStart.     *)
(***************************************************************************)
IsVpnIpAssigned == last.Type = EventVPNIPAssigned
IsSessionStart == last.Type = EventSessionStart

\* the identifier-keyed entries of a Session table
SidKeysOf(table) == {k \in DOMAIN table : IsSidKey(k)}

\* the primary Sessions of a table that belong to the user of the event
\* processed last and have no VPN IP
PrimaryWithoutVpnIP(table) ==
    {k \in DOMAIN table :
        /\ ~IsSidKey(k)
        /\ table[k].Server = last.Server
        /\ table[k].Username = last.Username
        /\ table[k].VpnIP = ""}

\* C11: a VpnIpAssigned event for a user who has a primary Session without
\* VPN IP gives the VPN IP to exactly one such primary Session, deletes that
\* Session's session-info entry with empty VPN IP and sets the entry with the
\* new VPN IP to the Session's start time; no other Session is changed.
C11_VpnIpGoesToPrimarySession ==
    (IsVpnIpAssigned /\ PrimaryWithoutVpnIP(prev.sessions) # {}) =>
        \E k \in PrimaryWithoutVpnIP(prev.sessions) :
            LET session == prev.sessions[k]
            IN  /\ sessions = [prev.sessions EXCEPT ![k].VpnIP = last.VpnIP]
                /\ SessionInfo =
                      VecSet(VecDelete(prev.SessionInfo,
                                <<session.Server, session.Username, "",
                                  session.Country, "">>),
                             <<session.Server, session.Username, last.VpnIP,
                               session.Country, "">>,
                             session.StartTime)

\* C12: a VpnIpAssigned event for a user who has no primary Session without
\* VPN IP changes no table and no session-info entry, identifier-keyed entries
\* of that user being present or not.
C12_VpnIpWithoutSessionDropped ==
    (IsVpnIpAssigned /\ PrimaryWithoutVpnIP(prev.sessions) = {}) =>
        /\ sessions = prev.sessions
        /\ lastDisconnects = prev.lastDisconnects
        /\ workerContext = prev.workerContext
        /\ SessionInfo = prev.SessionInfo

\* C13: Login, Disconnect, VpnIpAssigned and the cleanup pass leave every
\* identifier-keyed entry as it was and create none; every session-info
\* entry an operation adds carries the labels of a primary Session; and
\* SessionStart creates or alters no primary Session.
C13_IdentifierEntriesSeparate ==
    /\ (IsLogin \/ IsDisconnect \/ IsVpnIpAssigned \/ IsCleanup) =>
          /\ SidKeysOf(sessions) = SidKeysOf(prev.sessions)
          /\ \A k \in SidKeysOf(prev.sessions) : sessions[k] = prev.sessions[k]
    /\ \A l \in DOMAIN SessionInfo \ DOMAIN prev.SessionInfo :
          \E k \in PrimaryKeys : SessionInfoLabels(sessions[k]) = l
    /\ IsSessionStart =>
          /\ PrimaryKeys = {k \in DOMAIN prev.sessions : ~IsSidKey(k)}
          /\ \A k \in PrimaryKeys : sessions[k] = prev.sessions[k]

(***************************************************************************)
(* The pause signal of the session manager.                                *)
(***************************************************************************)
IsSessionPaused == last.Type = EventSecModClose

\* the WorkerContext keys of a table that belong to the user of the event
\* processed last
ContextsOfLastUser(table) ==
    {k \in DOMAIN table :
        table[k].Server = last.Server /\ table[k].Username = last.Username}

\* the IP-less WorkerContext key of a "server:user" key
IPLessKey(userKey) == userKey \o ":"

\* C14: after a SessionPaused event every WorkerContext of its user has the
\* pause flag and the IP-less context of the user exists with the flag; the
\* IP-less context keeps the flag until a Disconnect of the user or a cleanup
\* pass evicting a context of the user; and a Disconnect with raw reason
\* "unspecified error" of a user paused in this sense is counted as "mobile
\* sleep" and under no other reason.
C14_PauseVisibleToDisconnect ==
    /\ IsSessionPaused =>
          /\ \A k \in ContextsOfLastUser(workerContext) :
                workerContext[k].SecModClose
          /\ workerContextKey(last.Server, last.Username, "")
                \in ContextsOfLastUser(workerContext)
          /\ DOMAIN workerContext =
                DOMAIN prev.workerContext
                \cup {workerContextKey(last.Server, last.Username, "")}
    /\ \A u \in paused :
          /\ IPLessKey(u) \in DOMAIN workerContext
          /\ workerContext[IPLessKey(u)].SecModClose
    /\ (/\ IsDisconnect
        /\ last.Reason = "unspecified error"
        /\ lastUserKey \in prev.paused)
          => CountedReasons = {"mobile sleep"}

\* C14 witness: a Disconnect counted as "mobile sleep" although the context
\* of its client IP, created by a BYE packet after the pause, has no pause
\* flag
C14_Witness ==
    /\ IsDisconnect
    /\ last.Reason = "unspecified error"
    /\ lastUserKey \in prev.paused
    /\ LET ctxKey == workerContextKey(last.Server, last.Username, last.ClientIP)
       IN  /\ ctxKey \in DOMAIN prev.workerContext
           /\ prev.workerContext[ctxKey].HadBye
           /\ ~prev.workerContext[ctxKey].SecModClose
    /\ CountedReasons = {"mobile sleep"}

(***************************************************************************)
(* The cleanup pass.                                                       *)
(***************************************************************************)
\* the Sessions the operation processed last removed from the table
Evicted == DOMAIN prev.sessions \ DOMAIN sessions

\* the session-info labels of the Sessions the last operation removed
EvictedLabels ==
    {<<prev.sessions[k].Server, prev.sessions[k].Username,
       prev.sessions[k].VpnIP, prev.sessions[k].Country, "">> : k \in Evicted}

\* C15: after a cleanup pass no session-info entry carries the labels
\* (server, username, VPN IP, country, "") of a Session the pass evicted, the
\* pass removes no other session-info entry and changes none, and the
\* active-session gauge of each user is lower by 1 for each of the user's
\* Sessions the pass evicted.
C15_EvictionCleansGauges ==
    IsCleanup =>
        /\ EvictedLabels \cap DOMAIN SessionInfo = {}
        /\ DOMAIN SessionInfo = DOMAIN prev.SessionInfo \ EvictedLabels
        /\ \A l \in DOMAIN SessionInfo : SessionInfo[l] = prev.SessionInfo[l]
        /\ \A l \in UserLabels :
              VecValue(ActiveSessions, l) =
                 VecValue(prev.ActiveSessions, l)
                 - Cardinality({k \in Evicted :
                                  <<prev.sessions[k].Server,
                                    prev.sessions[k].Username>> = l})

\* C15 witness: a pass that evicted one Session with a VPN IP assigned, whose
\* session-info entry existed and whose user's gauge went from 1 to 0
C15_Witness ==
    /\ IsCleanup
    /\ \E k \in Evicted :
          /\ Evicted = {k}
          /\ prev.sessions[k].VpnIP # ""
          /\ EvictedLabels \subseteq DOMAIN prev.SessionInfo
          /\ VecValue(prev.ActiveSessions,
                      <<prev.sessions[k].Server, prev.sessions[k].Username>>) = 1
          /\ VecValue(ActiveSessions,
                      <<prev.sessions[k].Server, prev.sessions[k].Username>>) = 0

\* the entries of a table that are at most twice the reconnect window old at
\* `now`, the age being taken from the field `stamp`
Younger(table, stamp, now) ==
    {k \in DOMAIN table : now - table[k][stamp] <= 2 * ReconnectWindow}

AllEvents ==
    LoginEvents \cup DisconnectEvents \cup SessionStartEvents
    \cup SessionInvalidateEvents \cup VPNIPEvents \cup AuthFailedEvents
    \cup ByePacketEvents \cup DPDWarningEvents \cup SecModCloseEvents

\* the same events and cleanup passes as Spec, any event at any step
ArrivalEvent ==
    /\ nEvents < MaxArrivalEvents
    /\ \E e \in AllEvents : Deliver(e)
ArrivalSweeper ==
    /\ nEvents < MaxArrivalEvents
    /\ \E now \in SweepTimes : Tick(now)

ArrivalNext ==
    \/ ArrivalEvent
    \/ ArrivalSweeper

ArrivalSpec == Init /\ [][ArrivalNext]_vars

\* what the operation processed last left as it was, apart from the
\* last-event gauge
NothingChanged ==
    /\ sessions = prev.sessions
    /\ lastDisconnects = prev.lastDisconnects
    /\ workerContext = prev.workerContext
    /\ SessionInfo = prev.SessionInfo
    /\ ActiveSessions = prev.ActiveSessions
    /\ ConnectionsTotal = prev.ConnectionsTotal
    /\ ReconnectsTotal = prev.ReconnectsTotal
    /\ SessionDuration = prev.SessionDuration
    /\ ProblematicSessionsTotal = prev.ProblematicSessionsTotal
    /\ DisconnectionsTotal = prev.DisconnectionsTotal
    /\ ReceivedBytesTotal = prev.ReceivedBytesTotal
    /\ SentBytesTotal = prev.SentBytesTotal
    /\ ConnectionsByCountry = prev.ConnectionsByCountry
    /\ AuthFailedTotal = prev.AuthFailedTotal

\* C18: in every reachable state ProcessEvent can be carried out to the end
\* for every event of every kind, whatever was processed before; each event
\* processed sets the last-event gauge to its timestamp; and a VpnIpAssigned
\* event that matches no entry of the Session table changes nothing else.
C18_EveryEventProcessed ==
    /\ \A e \in AllEvents : ENABLED Deliver(e)
    /\ last.Type \notin {"None", "Cleanup"} => LastEventTimestamp = last.Timestamp
    /\ (/\ IsVpnIpAssigned
        /\ \A k \in DOMAIN prev.sessions :
              ~(/\ prev.sessions[k].Username = last.Username
                /\ prev.sessions[k].Server = last.Server
                /\ prev.sessions[k].VpnIP = ""))
          => NothingChanged

\* C18 witness: the duplicate of a Disconnect, processed after the first one
\* had removed the Session of an earlier Login
C18_Witness ==
    /\ IsDisconnect
    /\ prev.last = last
    /\ ~lastFound
    /\ VecValue(ConnectionsTotal, <<last.Server, last.Username, last.ClientIP>>) = 1
    /\ VecValue(DisconnectionsTotal, <<last.Server, last.Username, last.Reason>>) = 2
    /\ VecValue(ActiveSessions, lastUser) = 0

(***************************************************************************)
(* Bounded memory.                                                         *)
(***************************************************************************)
\* C16: once events have stopped and the cleanup pass keeps running, the
\* Session table (primary and identifier-keyed entries), the Disconnect
\* History and the Worker Context table are eventually empty and stay empty.
C16_EveryEntryEventuallyEvicted ==
    <>[](/\ sessions = EmptyMap
         /\ lastDisconnects = EmptyMap
         /\ workerContext = EmptyMap)

(***************************************************************************)
(* Mutual exclusion and freedom from deadlock.                             *)
(***************************************************************************)
\* goroutine g holds Collector.mu, for writing or for reading
Holds(g) == mu.writer = g \/ g \in mu.readers

\* the next step of g reads or writes one of the three tables
\* (handleAuthFailed touches none of them)
TouchesTables(g) ==
    \/ NextInstr(g) \in {"getOrCreateWorkerContext", "setHadBye",
                         "setDPDWarning", "sweepDisconnects",
                         "sweepWorkerContext", "sweepSessions"}
    \/ NextInstr(g) = "handle" /\ op[g].Type # EventAuthFailed

\* a table without the entries outside `keys`
Restrict(table, keys) == [k \in keys \cap DOMAIN table |-> table[k]]

\* the context a worker signal e finds under its key in `table`, or creates
FoundOrCreated(table, e) ==
    LET key == workerContextKey(e.Server, e.Username, e.ClientIP)
    IN  IF key \in DOMAIN table THEN table[key]
        ELSE WorkerContext(e.Username, e.ClientIP, e.Server, e.Timestamp)

\* the tables are what the whole operation of g makes of the tables it
\* started from (prev), no step of another operation in between
SerialEffect(g) ==
    LET e == op[g]
        key == workerContextKey(e.Server, e.Username, e.ClientIP)
        ctx == FoundOrCreated(prev.workerContext, e)
    IN  CASE e.Type = EventByePacket ->
               /\ workerContext =
                     MapPut(prev.workerContext, key,
                            [ctx EXCEPT !.HadBye = TRUE,
                                        !.LastUpdate = e.Timestamp])
               /\ sessions = prev.sessions
               /\ lastDisconnects = prev.lastDisconnects
          [] e.Type = EventDPDWarning ->
               /\ workerContext =
                     MapPut(prev.workerContext, key,
                            [ctx EXCEPT !.DPDWarning = TRUE,
                                        !.DPDSeconds = e.DPDSeconds,
                                        !.LastUpdate = e.Timestamp])
               /\ sessions = prev.sessions
               /\ lastDisconnects = prev.lastDisconnects
          [] e.Type = "Cleanup" ->
               /\ lastDisconnects =
                     Restrict(prev.lastDisconnects,
                              Younger(prev.lastDisconnects, "Timestamp", locals[g]))
               /\ workerContext =
                     Restrict(prev.workerContext,
                              Younger(prev.workerContext, "LastUpdate", locals[g]))
               /\ sessions =
                     Restrict(prev.sessions,
                              DOMAIN prev.sessions
                                 \ StaleAt(prev.sessions, locals[g]))
          [] OTHER -> TRUE

\* the state part of C19
ExclusiveSections ==
    /\ mu.writer # "" => mu.readers = {}
    /\ \A g \in Goroutines :
          /\ TouchesTables(g) => mu.writer = g
          /\ NextInstr(g) = "countSessions" => g \in mu.readers
          /\ (NextInstr(g) = "Unlock" /\ last = op[g]) => SerialEffect(g)
          /\ NextInstr(g) = "RUnlock" =>
                locals[g] = Cardinality({k \in DOMAIN sessions : ~IsSidKey(k)})

\* C19: a goroutine about to read or write a table holds the lock (for
\* writing, or for reading in the read accessor), a writer excludes every
\* other holder, a table changes only in a step of the goroutine that holds
\* the lock for writing, and when an operation reaches its Unlock the tables
\* are what the whole operation makes of the tables it found at its Lock:
\* operations take effect one after another, in the order of their Locks.
C19_SerialOrder ==
    /\ []ExclusiveSections
    /\ [][tables' # tables =>
             /\ mu.writer # ""
             /\ mu'.writer = mu.writer
             /\ pc'[mu.writer] # pc[mu.writer]]_vars

\* C19 witness: a BYE packet handler at its Unlock, having updated a context
\* that existed before, while the cleanup goroutine waits at its Lock
C19_Witness ==
    /\ NextInstr("reader") = "Unlock"
    /\ op["reader"].Type = EventByePacket
    /\ last = op["reader"]
    /\ workerContextKey(last.Server, last.Username, last.ClientIP)
          \in DOMAIN prev.workerContext
    /\ workerContext # prev.workerContext
    /\ NextInstr("cleanup") = "Lock"

\* C20: a goroutine that requests the lock does not hold it (no operation
\* acquires it a second time, directly or in a helper), a goroutine that
\* executes no operation holds nothing (every operation releases what it
\* acquired), every goroutine that requests the lock obtains it, and every
\* operation runs to its end.
C20_NoDeadlock ==
    /\ [](\A g \in Goroutines :
             /\ NextInstr(g) \in {"Lock", "RLock"} => ~Holds(g)
             /\ pc[g] = 0 => ~Holds(g))
    /\ \A g \in Goroutines :
          /\ (NextInstr(g) \in {"Lock", "RLock"}) ~> Holds(g)
          /\ (pc[g] # 0) ~> (pc[g] = 0)

\* C20 witness: the log reader holds the lock inside getOrCreateWorkerContext
\* while the cleanup goroutine and the accessor both wait for it
C20_Witness ==
    /\ mu.writer = "reader"
    /\ NextInstr("reader") = "setHadBye"
    /\ NextInstr("cleanup") = "Lock"
    /\ NextInstr("accessor") = "RLock"

(***************************************************************************)
(* AuthFailed and the last-event gauge                                     *)
(***************************************************************************)
IsAuthFailed == last.Type = EventAuthFailed
\* the last operation was an event handed to ProcessEvent
IsEvent == last.Type \notin {"None", "Cleanup"}

\* the resolver gives no country for the address of the event processed last
NoCountryResolved == ~geoIP \/ Lookup(last.ClientIP)[1] = ""

\* the labels the failed-authentication counter is to be raised under
AuthFailedLabels ==
    IF NoCountryResolved
    THEN <<last.Server, last.Username, last.ClientIP, "Unknown", "">>
    ELSE <<last.Server, last.Username, last.ClientIP,
           Lookup(last.ClientIP)[1], Lookup(last.ClientIP)[2]>>

\* every metric but the failed-authentication counter and the last-event
\* gauge is as it was before the last operation
OtherMetricsUnchanged ==
    /\ SessionInfo = prev.SessionInfo
    /\ ActiveSessions = prev.ActiveSessions
    /\ ConnectionsTotal = prev.ConnectionsTotal
    /\ ReconnectsTotal = prev.ReconnectsTotal
    /\ SessionDuration = prev.SessionDuration
    /\ ProblematicSessionsTotal = prev.ProblematicSessionsTotal
    /\ DisconnectionsTotal = prev.DisconnectionsTotal
    /\ ReceivedBytesTotal = prev.ReceivedBytesTotal
    /\ SentBytesTotal = prev.SentBytesTotal
    /\ ConnectionsByCountry = prev.ConnectionsByCountry

TablesUnchanged ==
    /\ sessions = prev.sessions
    /\ lastDisconnects = prev.lastDisconnects
    /\ workerContext = prev.workerContext

C23_LastEventGauge ==
    IsEvent => LastEventTimestamp = last.Timestamp

\* C23 witness: a SessionInvalidate, which no handler exists for, moved the
\* gauge away from the timestamp of the event before it
C23_Witness ==
    /\ last.Type = EventSessionInvalidate
    /\ prev.last.Type = EventUserDisconnect
    /\ prev.last.Timestamp # last.Timestamp
    /\ prev.LastEventTimestamp = prev.last.Timestamp
    /\ LastEventTimestamp = last.Timestamp
    /\ TablesUnchanged

(***************************************************************************)
(* Session boundaries, enrichment of other reasons, the reconnect window   *)
(***************************************************************************)
IsSessionInvalidate == last.Type = EventSessionInvalidate

\* the identifier-keyed entry the event processed last is about
lastSidKey == sidKey(last.Server, last.SessionID)

\* the identifier-keyed space holds a record of the event processed last:
\* its entry stamped with the event, or, for a SessionInvalidate, the entry
\* of its session taken out
RecordedInIdentifierSpace ==
    \/ /\ lastSidKey \in DOMAIN sessions
       /\ sessions[lastSidKey].Server = last.Server
       /\ sessions[lastSidKey].Username = last.Username
       /\ sessions[lastSidKey].SessionID = last.SessionID
       /\ sessions[lastSidKey].StartTime = last.Timestamp
    \/ /\ IsSessionInvalidate
       /\ lastSidKey \in DOMAIN prev.sessions
       /\ lastSidKey \notin DOMAIN sessions

\* C28: a SessionStart and a SessionInvalidate are each recorded in the
\* identifier-keyed space, and neither changes a metric other than the
\* last-event gauge.
C28_SessionBoundariesRecorded ==
    (IsSessionStart \/ IsSessionInvalidate) =>
        /\ RecordedInIdentifierSpace
        /\ OtherMetricsUnchanged
        /\ AuthFailedTotal = prev.AuthFailedTotal

\* C29: a Disconnect whose raw reason is not "unspecified error" is counted
\* under its raw reason whatever the consulted contexts hold, and one with
\* raw reason "unspecified error" and no flag in a consulted context is
\* counted under "unspecified error".
C29_OtherReasonsUntouched ==
    IsDisconnect =>
        /\ last.Reason # "unspecified error" => CountedReasons = {last.Reason}
        /\ (/\ last.Reason = "unspecified error"
            /\ \A c \in ConsultedContexts :
                  ~c.SecModClose /\ ~c.HadBye /\ ~c.DPDWarning)
              => CountedReasons = {"unspecified error"}

\* C29 witness: a Disconnect with another raw reason while a consulted
\* context holds the pause flag and one holds the bye flag
C29_Witness ==
    /\ IsDisconnect
    /\ last.Reason = "user disconnected"
    /\ \E c \in ConsultedContexts : c.SecModClose
    /\ \E c \in ConsultedContexts : c.HadBye
    /\ CountedReasons = {"user disconnected"}

\* C30: a Login raises the reconnect counter only if the DisconnectRecord of
\* its user exists and the Login's timestamp is at or after the record's and
\* less than the reconnect window after it.
C30_ReconnectWithinWindowAfter ==
    (IsLogin /\ ReconnectsTotal # prev.ReconnectsTotal) =>
        /\ lastUserKey \in DOMAIN prev.lastDisconnects
        /\ last.Timestamp >= prev.lastDisconnects[lastUserKey].Timestamp
        /\ last.Timestamp - prev.lastDisconnects[lastUserKey].Timestamp
              < ReconnectWindow

(***************************************************************************)
(* package parser: the regular expressions of New and Parse.  A regular    *)
(* expression is the sequence of its items; the match at the leftmost      *)
(* position is the one taken, repetitions take as much as they can and     *)
(* give back one character at a time, as regexp.FindStringSubmatch does    *)
(* for these expressions.  Strings are indexed from 1.                     *)
(***************************************************************************)
Digits == {"0", "1", "2", "3", "4", "5", "6", "7", "8", "9"}

\* the items of an expression: literal text, [set]+, [^set]+, [^set]*,
\* the two ends of a capturing group, (?: ... )?
Lit(s) == [op |-> "lit", s |-> s, set |-> {}, neg |-> FALSE, min |-> 0, body |-> << >>]
OneOrMore(set) ==
    [op |-> "rep", s |-> "", set |-> set, neg |-> FALSE, min |-> 1, body |-> << >>]
OneOrMoreNot(set) ==
    [op |-> "rep", s |-> "", set |-> set, neg |-> TRUE, min |-> 1, body |-> << >>]
ZeroOrMoreNot(set) ==
    [op |-> "rep", s |-> "", set |-> set, neg |-> TRUE, min |-> 0, body |-> << >>]
Open == [op |-> "open", s |-> "", set |-> {}, neg |-> FALSE, min |-> 0, body |-> << >>]
Close == [op |-> "close", s |-> "", set |-> {}, neg |-> FALSE, min |-> 0, body |-> << >>]
Optional(body) ==
    [op |-> "opt", s |-> "", set |-> {}, neg |-> FALSE, min |-> 0, body |-> body]
\* ( item )
Group(item) == <<Open, item, Close>>

\* the character of s at position i
CharAt(s, i) == SubSeq(s, i, i)

\* how many characters from position pos on belong to the class of item t
RunLen(t, s, pos) ==
    LET stops == {i \in pos..(Len(s) + 1) :
                     \/ i = Len(s) + 1
                     \/ (CharAt(s, i) \in t.set) = t.neg}
    IN  (CHOOSE i \in stops : \A j \in stops : i <= j) - pos

RECURSIVE Match(_, _, _, _, _)
RECURSIVE Repeat(_, _, _, _, _, _, _)
RECURSIVE MatchItems(_, _, _, _, _)
\* the matches of the rest of the expression after n, n - 1, ... characters
\* taken by the repetition t, the longest repetition first
Repeat(t, rest, s, pos, start, caps, n) ==
    IF n < t.min THEN << >>
    ELSE Match(rest, s, pos + n, start, caps)
         \o Repeat(t, rest, s, pos, start, caps, n - 1)

\* the matches of the expression re at position pos of s in the order of
\* preference, each the texts of its groups: << >> when re does not match
\* there; start is where the open group began, caps the texts of the groups
\* closed so far; a group that takes no part in the match has the text ""
MatchItems(re, s, pos, start, caps) ==
    IF re = << >> THEN <<caps>>
    ELSE LET t == Head(re)
             rest == Tail(re)
         IN  CASE t.op = "lit" ->
                    IF /\ pos + Len(t.s) - 1 <= Len(s)
                       /\ SubSeq(s, pos, pos + Len(t.s) - 1) = t.s
                    THEN Match(rest, s, pos + Len(t.s), start, caps)
                    ELSE << >>
               [] t.op = "open" -> Match(rest, s, pos, pos, caps)
               [] t.op = "close" ->
                    Match(rest, s, pos, 0,
                          Append(caps, SubSeq(s, start, pos - 1)))
               [] t.op = "rep" ->
                    CHOOSE found \in
                        {Repeat(t, rest, s, pos, start, caps, n) :
                            n \in {RunLen(t, s, pos)}} : TRUE
               [] t.op = "opt" ->
                    Match(t.body \o rest, s, pos, start, caps)
                    \o Match(rest, s, pos, start, Append(caps, ""))

\* MatchItems of the values of the arguments, each evaluated once
Match(re, s, pos, start, caps) ==
    CHOOSE found \in
        {MatchItems(a.re, a.s, a.pos, a.start, a.caps) :
            a \in {[re |-> re, s |-> s, pos |-> pos, start |-> start,
                    caps |-> caps]}} : TRUE

RECURSIVE FindIn(_, _, _, _)
\* the matches of re at the positions lo..hi of s, the leftmost first
FindIn(re, s, lo, hi) ==
    IF lo = hi THEN Match(re, s, lo, 0, << >>)
    ELSE FindIn(re, s, lo, (lo + hi) \div 2)
         \o FindIn(re, s, (lo + hi) \div 2 + 1, hi)

\* the first of the matches, if any
First(found) == IF found = << >> THEN << >> ELSE Head(found)

\* re.FindStringSubmatch(s) without the text of the whole match: << >> for
\* nil, else the texts of the groups, matches[1] first
FindStringSubmatch(re, s) == First(FindIn(re, s, 1, Len(s) + 1))

\* main\[([^\]]+)\]:([^:]+):(\d+) user logged in
reLogin ==
    <<Lit("main[")>> \o Group(OneOrMoreNot({"]"})) \o <<Lit("]:")>>
    \o Group(OneOrMoreNot({":"})) \o <<Lit(":")>> \o Group(OneOrMore(Digits))
    \o <<Lit(" user logged in")>>

\* main\[([^\]]+)\]:([^:]+):(\d+) user disconnected
\*    \(reason: ([^,]+), rx: (\d+), tx: (\d+)\)
reDisconnect ==
    <<Lit("main[")>> \o Group(OneOrMoreNot({"]"})) \o <<Lit("]:")>>
    \o Group(OneOrMoreNot({":"})) \o <<Lit(":")>> \o Group(OneOrMore(Digits))
    \o <<Lit(" user disconnected (reason: ")>> \o Group(OneOrMoreNot({","}))
    \o <<Lit(", rx: ")>> \o Group(OneOrMore(Digits))
    \o <<Lit(", tx: ")>> \o Group(OneOrMore(Digits)) \o <<Lit(")")>>

\* sec-mod: initiating session for user '([^']+)' \(session: ([^)]+)\)
reSessionStart ==
    <<Lit("sec-mod: initiating session for user '")>>
    \o Group(OneOrMoreNot({"'"})) \o <<Lit("' (session: ")>>
    \o Group(OneOrMoreNot({")"})) \o <<Lit(")")>>

\* sec-mod: invalidating session of user '([^']+)' \(session: ([^)]+)\)
reSessionInvalidate ==
    <<Lit("sec-mod: invalidating session of user '")>>
    \o Group(OneOrMoreNot({"'"})) \o <<Lit("' (session: ")>>
    \o Group(OneOrMoreNot({")"})) \o <<Lit(")")>>

\* worker\[([^\]]+)\]: [^ ]+ sending IPv4 ([0-9.]+)
reVPNIP ==
    <<Lit("worker[")>> \o Group(OneOrMoreNot({"]"})) \o <<Lit("]: ")>>
    \o <<OneOrMoreNot({" "}), Lit(" sending IPv4 ")>>
    \o Group(OneOrMore(Digits \cup {"."}))

\* main(?:\[([^\]]*)\])?:([^:]+):(\d+) failed authentication attempt
reAuthFailed ==
    <<Lit("main"),
      Optional(<<Lit("[")>> \o Group(ZeroOrMoreNot({"]"})) \o <<Lit("]")>>),
      Lit(":")>>
    \o Group(OneOrMoreNot({":"})) \o <<Lit(":")>> \o Group(OneOrMore(Digits))
    \o <<Lit(" failed authentication attempt")>>

\* worker(?:\[([^\]]*)\])?: ([^ ]+) failed cookie authentication attempt
reCookieAuthFailed ==
    <<Lit("worker"),
      Optional(<<Lit("[")>> \o Group(ZeroOrMoreNot({"]"})) \o <<Lit("]")>>),
      Lit(": ")>>
    \o Group(OneOrMoreNot({" "}))
    \o <<Lit(" failed cookie authentication attempt")>>

\* worker\[([^\]]+)\]: ([^ ]+) received BYE packet
reByePacket ==
    <<Lit("worker[")>> \o Group(OneOrMoreNot({"]"})) \o <<Lit("]: ")>>
    \o Group(OneOrMoreNot({" "})) \o <<Lit(" received BYE packet")>>

\* worker\[([^\]]+)\]: ([^ ]+) have not received TCP DPD for long \((\d+) secs\)
reDPDWarning ==
    <<Lit("worker[")>> \o Group(OneOrMoreNot({"]"})) \o <<Lit("]: ")>>
    \o Group(OneOrMoreNot({" "}))
    \o <<Lit(" have not received TCP DPD for long (")>>
    \o Group(OneOrMore(Digits)) \o <<Lit(" secs)")>>

\* sec-mod: temporarily closing session for ([^ ]+) \(session: ([^)]+)\)
reSecModClose ==
    <<Lit("sec-mod: temporarily closing session for ")>>
    \o Group(OneOrMoreNot({" "})) \o <<Lit(" (session: ")>>
    \o Group(OneOrMoreNot({")"})) \o <<Lit(")")>>

(***************************************************************************)
(* strconv.Atoi and strconv.ParseUint on the text of a (\d+) group.  The   *)
(* text holds digits only, so the one error left is a value out of range,  *)
(* and with it strconv returns the largest value of the type, which Parse  *)
(* stores because it drops the error.                                      *)
(***************************************************************************)
\* math.MaxInt where int is 32 bits wide (1<<63 - 1 where it is 64 bits wide)
MaxInt == 2147483647
\* stands for math.MaxUint64, which is beyond the integers of the model
MaxUint64 == 2147483647

DigitValue(c) == CHOOSE d \in 0..9 : ToString(d) = c

RECURSIVE ParseDigits(_, _, _, _)
\* the digits of s from position i on appended to the value n; max once
\* another digit would take the value beyond max
ParseDigits(s, i, n, max) ==
    IF i > Len(s) THEN n
    ELSE LET d == DigitValue(CharAt(s, i))
         IN  IF n > (max - d) \div 10 THEN max
             ELSE ParseDigits(s, i + 1, n * 10 + d, max)

\* n, _ = strconv.Atoi(s)
Atoi(s) == ParseDigits(s, 1, 0, MaxInt)
\* n, _ = strconv.ParseUint(s, 10, 64)
ParseUint(s) == ParseDigits(s, 1, 0, MaxUint64)

(***************************************************************************)
(* Parser.Parse and Collector.ProcessLogLine                               *)
(***************************************************************************)
\* variant: the failed-authentication rules are tried first
ParseRules_AuthFailedFirst ==
    <<"AuthFailed", "CookieAuthFailed", "Login", "Disconnect", "SessionStart",
      "SessionInvalidate", "VPNIP", "ByePacket", "DPDWarning", "SecModClose">>

\* the rules in the order Parse tries them
ParseRules ==
    <<"Login", "Disconnect", "SessionStart", "SessionInvalidate", "VPNIP",
      "AuthFailed", "CookieAuthFailed", "ByePacket", "DPDWarning",
      "SecModClose">>

\* the expression of a rule
RuleExpr(rule) ==
    CASE rule = "Login"             -> reLogin
      [] rule = "Disconnect"        -> reDisconnect
      [] rule = "SessionStart"      -> reSessionStart
      [] rule = "SessionInvalidate" -> reSessionInvalidate
      [] rule = "VPNIP"             -> reVPNIP
      [] rule = "AuthFailed"        -> reAuthFailed
      [] rule = "CookieAuthFailed"  -> reCookieAuthFailed
      [] rule = "ByePacket"         -> reByePacket
      [] rule = "DPDWarning"        -> reDPDWarning
      [] rule = "SecModClose"       -> reSecModClose

\* the event a rule returns for its matches
RuleEvent(rule, event, matches) ==
    CASE rule = "Login" ->
            [event EXCEPT !.Type = EventUserLogin, !.Username = matches[1],
                          !.ClientIP = matches[2], !.Port = Atoi(matches[3])]
      [] rule = "Disconnect" ->
            [event EXCEPT !.Type = EventUserDisconnect,
                          !.Username = matches[1], !.ClientIP = matches[2],
                          !.Port = Atoi(matches[3]), !.Reason = matches[4],
                          !.RxBytes = ParseUint(matches[5]),
                          !.TxBytes = ParseUint(matches[6])]
      [] rule = "SessionStart" ->
            [event EXCEPT !.Type = EventSessionStart, !.Username = matches[1],
                          !.SessionID = matches[2]]
      [] rule = "SessionInvalidate" ->
            [event EXCEPT !.Type = EventSessionInvalidate,
                          !.Username = matches[1], !.SessionID = matches[2]]
      [] rule = "VPNIP" ->
            [event EXCEPT !.Type = EventVPNIPAssigned, !.Username = matches[1],
                          !.VpnIP = matches[2]]
      [] rule = "AuthFailed" ->
            [event EXCEPT !.Type = EventAuthFailed, !.Username = matches[1],
                          !.ClientIP = matches[2], !.Port = Atoi(matches[3])]
      [] rule = "CookieAuthFailed" ->
            [event EXCEPT !.Type = EventAuthFailed, !.Username = matches[1],
                          !.ClientIP = matches[2]]
      [] rule = "ByePacket" ->
            [event EXCEPT !.Type = EventByePacket, !.Username = matches[1],
                          !.ClientIP = matches[2]]
      [] rule = "DPDWarning" ->
            [event EXCEPT !.Type = EventDPDWarning, !.Username = matches[1],
                          !.ClientIP = matches[2],
                          !.DPDSeconds = Atoi(matches[3])]
      [] rule = "SecModClose" ->
            [event EXCEPT !.Type = EventSecModClose, !.Username = matches[1],
                          !.SessionID = matches[2]]

RECURSIVE TryRules(_, _, _)
\* the event of the first of the rules that matches, else the event as it is
TryRules(rules, event, message) ==
    IF rules = << >> THEN event
    ELSE CHOOSE result \in
            {IF matches # << >>
             THEN RuleEvent(Head(rules), event, matches)
             ELSE TryRules(Tail(rules), event, message) :
                matches \in {FindStringSubmatch(RuleExpr(Head(rules)), message)}} :
            TRUE

\* the field Raw, the message itself, is read by no handler and is left out
Parse(ts, message, server) ==
    TryRules(ParseRules, Event(EventUnknown, ts, server), message)

\* variant: the event is processed whatever its kind
ProcessLogLine_AnyKind(ts, message, server) ==
    \E event \in {Parse(ts, message, server)} : ProcessEvent(event)

ProcessLogLine(ts, message, server) ==
    \E event \in {Parse(ts, message, server)} :
        IF event.Type # EventUnknown
        THEN ProcessEvent(event)
        ELSE UNCHANGED <<tables, metrics>>

(***************************************************************************)
(* ParseSpec: the log reader hands entries of the log to ProcessLogLine.   *)
(* The messages are the lines ocserv writes, as the comments of parser.New *)
(* and the parser's test show them, lines no rule is for, and lines that   *)
(* hold the text of two rules.                                             *)
(***************************************************************************)
MaxLines == 2           \* entries per behaviour of ParseSpec

LoginLine(user, ip, port) ==
    "main[" \o user \o "]:" \o ip \o ":" \o port \o " user logged in"
DisconnectLine(user, ip, port, reason, rx, tx) ==
    "main[" \o user \o "]:" \o ip \o ":" \o port
    \o " user disconnected (reason: " \o reason \o ", rx: " \o rx
    \o ", tx: " \o tx \o ")"
SessionStartLine(user, sid) ==
    "sec-mod: initiating session for user '" \o user \o "' (session: "
    \o sid \o ")"
SessionInvalidateLine(user, sid) ==
    "sec-mod: invalidating session of user '" \o user \o "' (session: "
    \o sid \o ")"
VPNIPLine(user, ip, vpn) ==
    "worker[" \o user \o "]: " \o ip \o " sending IPv4 " \o vpn
AuthFailedLine(tag, ip, port, user) ==
    "main" \o tag \o ":" \o ip \o ":" \o port
    \o " failed authentication attempt for user '" \o user \o "'"
CookieAuthFailedLine(ip) ==
    "worker: " \o ip \o " failed cookie authentication attempt"
ByeLine(user, ip) ==
    "worker[" \o user \o "]: " \o ip \o " received BYE packet; exiting"
DPDLine(user, ip, secs) ==
    "worker[" \o user \o "]: " \o ip
    \o " have not received TCP DPD for long (" \o secs \o " secs)"
SecModCloseLine(user, sid) ==
    "sec-mod: temporarily closing session for " \o user \o " (session: "
    \o sid \o ")"

\* a port of twenty digits, beyond int of either width
HugePort == "99999999999999999999"

\* each message with the event its rule is to give, timestamp and server
\* apart
Catalogue ==
    {[Message |-> LoginLine("alice", "62.4.32.53", "30595"),
      Event |-> LoginEvent(0, "", "alice", "62.4.32.53", 30595)],
     [Message |-> DisconnectLine("alice", "62.4.32.53", "30595",
                                 "user disconnected", "100", "200"),
      Event |-> DisconnectEvent(0, "", "alice", "62.4.32.53", 30595,
                                "user disconnected", 100, 200)],
     [Message |-> DisconnectLine("alice", "62.4.32.53", "30595",
                                 "unspecified error", "0100", "0"),
      Event |-> DisconnectEvent(0, "", "alice", "62.4.32.53", 30595,
                                "unspecified error", 100, 0)],
     [Message |-> SessionStartLine("alice", "yKsy7b"),
      Event |-> SessionStartEvent(0, "", "alice", "yKsy7b")],
     [Message |-> SessionInvalidateLine("alice", "yKsy7b"),
      Event |-> SessionInvalidateEvent(0, "", "alice", "yKsy7b")],
     [Message |-> VPNIPLine("alice", "62.4.32.53", "10.0.0.5"),
      Event |-> VPNIPEvent(0, "", "alice", "10.0.0.5")],
     [Message |-> AuthFailedLine("", "172.30.30.30", "56078", ""),
      Event |-> AuthFailedEvent(0, "", "", "172.30.30.30", 56078)],
     [Message |-> AuthFailedLine("[alice]", "62.4.32.53", "30595", "alice"),
      Event |-> AuthFailedEvent(0, "", "alice", "62.4.32.53", 30595)],
     [Message |-> CookieAuthFailedLine("172.30.30.30"),
      Event |-> AuthFailedEvent(0, "", "", "172.30.30.30", 0)],
     [Message |-> ByeLine("alice", "62.4.32.53"),
      Event |-> ByePacketEvent(0, "", "alice", "62.4.32.53")],
     [Message |-> DPDLine("alice", "62.4.32.53", "137"),
      Event |-> DPDWarningEvent(0, "", "alice", "62.4.32.53", 137)],
     [Message |-> SecModCloseLine("alice", "u7N/JC"),
      Event |-> SecModCloseEvent(0, "", "alice", "u7N/JC")],
     \* lines no rule is for
     [Message |-> "worker[alice]: 62.4.32.53 configured link MTU is 1420",
      Event |-> Event(EventUnknown, 0, "")],
     [Message |-> LoginLine("alice", "62.4.32.53", "x30595"),
      Event |-> Event(EventUnknown, 0, "")],
     [Message |-> "",
      Event |-> Event(EventUnknown, 0, "")],
     \* the text of two rules in one line: the rule tried first gives the event
     [Message |-> DisconnectLine("alice", "62.4.32.53", "30595",
                                 "user disconnected", "100", "200")
                  \o "; " \o LoginLine("bob", "172.30.30.30", "30595"),
      Event |-> LoginEvent(0, "", "bob", "172.30.30.30", 30595)],
     [Message |-> AuthFailedLine("", "172.30.30.30", "56078",
                                 LoginLine("bob", "172.30.30.30", "30595")),
      Event |-> LoginEvent(0, "", "bob", "172.30.30.30", 30595)],
     [Message |-> SecModCloseLine("alice", "u7N/JC") \o " "
                  \o ByeLine("alice", "62.4.32.53"),
      Event |-> ByePacketEvent(0, "", "alice", "62.4.32.53")],
     \* a port beyond the range of int
     [Message |-> LoginLine("alice", "62.4.32.53", HugePort),
      Event |-> LoginEvent(0, "", "alice", "62.4.32.53", MaxInt)]}

\* the entries the reader returns: each message of the catalogue, an earlier
\* login, and two messages from a second unit
LogEntries ==
    {Entry(45, "ocserv", c.Message) : c \in Catalogue}
    \cup {Entry(0, "ocserv", LoginLine("alice", "62.4.32.53", "30595"))}
    \cup {Entry(300, "ocserv-ru", m) :
             m \in {LoginLine("alice", "62.4.32.53", "30595"),
                    "worker[alice]: 62.4.32.53 configured link MTU is 1420"}}

\* main: entry, err := reader.Read(); coll.ProcessLogLine(entry.Timestamp,
\* entry.Message, entry.Unit)
ReadEntry(entry) ==
    \E e \in {Parse(entry.Timestamp, entry.Message, entry.Unit)} :
        /\ nEvents' = nEvents + 1
        /\ line' = entry
        /\ last' = e
        /\ prev' = Snapshot
        /\ everDisconnected' =
              IF e.Type = EventUserDisconnect
              THEN MapPut(everDisconnected, userKeyOf(e.Server, e.Username),
                          e.Timestamp)
              ELSE everDisconnected
        /\ paused' =
              CASE e.Type = EventSecModClose ->
                      paused \cup {userKeyOf(e.Server, e.Username)}
                [] e.Type = EventUserDisconnect ->
                      paused \ {userKeyOf(e.Server, e.Username)}
                [] OTHER -> paused
        /\ ProcessLogLine(entry.Timestamp, entry.Message, entry.Unit)
        /\ UNCHANGED <<geoIP, clock, ctxDone, loop, journal, logFile, tick>>
        /\ UNCHANGED occtlVars
        /\ UNCHANGED lockVars

LineRead ==
    /\ nEvents < MaxLines
    /\ \E entry \in LogEntries : ReadEntry(entry)

ParseNext == LineRead

ParseSpec == Init /\ [][ParseNext]_vars


(***************************************************************************)
(* Claims about Parse and ProcessLogLine, checked under ParseSpec.         *)
(***************************************************************************)
\* an entry has been read and handed to ProcessLogLine
LineProcessed == nEvents > 0 /\ last.Type # "Cleanup" /\ last.Type # "None"

\* the message matches the expression of none of the rules
MatchesNoRule(message) ==
    \A i \in DOMAIN ParseRules :
        FindStringSubmatch(RuleExpr(ParseRules[i]), message) = << >>

\* C24: a log line that matches no rule is dropped: after ProcessLogLine the
\* three tables and every metric, the last-event gauge among them, are as
\* they were before.
C24_UnmatchedLineDropped ==
    (LineProcessed /\ MatchesNoRule(line.Message)) =>
        /\ TablesUnchanged
        /\ OtherMetricsUnchanged
        /\ AuthFailedTotal = prev.AuthFailedTotal
        /\ LastEventTimestamp = prev.LastEventTimestamp

\* an unmatched line read after lines that filled the tables, with a
\* timestamp the last-event gauge does not show
C24_Witness ==
    /\ LineProcessed
    /\ MatchesNoRule(line.Message)
    /\ sessions # EmptyMap
    /\ line.Timestamp # LastEventTimestamp

\* the event the catalogue gives for an entry
ExpectedEvent(entry) ==
    LET c == CHOOSE c \in Catalogue : c.Message = entry.Message
    IN  [c.Event EXCEPT !.Timestamp = entry.Timestamp, !.Server = entry.Unit]

\* C25: Parse returns the event of the first rule, in the order login,
\* disconnect, session start, session invalidate, VPN IP, auth failed,
\* cookie auth failed, BYE packet, DPD warning, sec-mod close, that matches
\* the message, with the fields that rule extracts; an Unknown event when no
\* rule matches; always with the timestamp and the server name given.
C25_ParseFirstRule ==
    LineProcessed =>
        /\ last = ExpectedEvent(line)
        /\ last.Timestamp = line.Timestamp
        /\ last.Server = line.Unit
        /\ (last.Type = EventUnknown) = MatchesNoRule(line.Message)

\* a line that holds the text of a failed-authentication attempt and of a
\* login was read, from the second unit or not, and gave the login
C25_Witness ==
    /\ LineProcessed
    /\ FindStringSubmatch(reAuthFailed, line.Message) # << >>
    /\ FindStringSubmatch(reLogin, line.Message) # << >>
    /\ last.Type = EventUserLogin
    /\ last.Username = "bob"

\* the text of the port of a login line, "" when the line is no login
LoginPortText(message) ==
    LET matches == FindStringSubmatch(reLogin, message)
    IN  IF matches = << >> THEN "" ELSE matches[3]

\* C26: a line that matches a rule with a number that does not fit the
\* integer it is converted to (here: a login whose port has twenty digits)
\* gives an event of the rule's kind with the value zero in that field.
C26_MalformedNumberIsZero ==
    (LineProcessed /\ Len(LoginPortText(line.Message)) >= 20) =>
        /\ last.Type = EventUserLogin
        /\ last.Port = 0


(***************************************************************************)
(* package occtl: what the client returns to pollOcctl.  The text of the   *)
(* occtl commands is not modelled; an answer holds the parsed structures   *)
(* and the call, if any, that fails.                                       *)
(***************************************************************************)
\* occtl.User, the fields pollOcctl reads
User(username, clientIP, vpnIP, since) ==
    [Username |-> username, ClientIP |-> clientIP, VpnIP |-> vpnIP,
     Since |-> since]

\* occtl.Session, the fields the three aggregations read
OcctlSession(username, userAgent) ==
    [Username |-> username, UserAgent |-> userAgent]

UpperLetters == "ABCDEFGHIJKLMNOPQRSTUVWXYZ"
LowerLetters == "abcdefghijklmnopqrstuvwxyz"

RECURSIVE ToLower(_)
\* strings.ToLower
ToLower(s) ==
    IF s = "" THEN ""
    ELSE LET c == CharAt(s, 1)
             at == {i \in 1..26 : CharAt(UpperLetters, i) = c}
         IN  (IF at = {} THEN c ELSE CharAt(LowerLetters, CHOOSE i \in at : TRUE))
             \o ToLower(SubSeq(s, 2, Len(s)))

\* strings.Contains
Contains(s, substr) ==
    \E i \in 1..(Len(s) - Len(substr) + 1) :
        SubSeq(s, i, i + Len(substr) - 1) = substr

classifyUserAgent(userAgent) ==
    LET ua == ToLower(userAgent)
    IN  CASE Contains(ua, "android") -> "AnyConnect Mobile (Android)"
          [] \/ Contains(ua, "applesslvpn")
             \/ Contains(ua, "iphone")
             \/ Contains(ua, "ipad") -> "AnyConnect Mobile (iOS)"
          [] Contains(ua, "openconnect-gui") -> "OpenConnect GUI"
          [] Contains(ua, "openconnect vpn agent") -> "OpenConnect VPN Agent"
          [] Contains(ua, "open anyconnect") -> "Open AnyConnect"
          [] Contains(ua, "anyconnect darwin") -> "AnyConnect (macOS)"
          [] Contains(ua, "anyconnect windows") -> "AnyConnect (Windows)"
          [] Contains(ua, "anyconnect") -> "AnyConnect (Other)"
          [] Contains(ua, "openconnect") -> "OpenConnect (CLI)"
          [] OTHER -> IF ua = "" THEN "Unknown" ELSE "Other"

\* map client type -> number of sessions
GetUserAgentStats(sess) ==
    LET types == {classifyUserAgent(sess[i].UserAgent) : i \in DOMAIN sess}
    IN  [t \in types |->
            Cardinality({i \in DOMAIN sess :
                            classifyUserAgent(sess[i].UserAgent) = t})]

\* map username -> number of sessions
GetUserSessionCounts(sess) ==
    LET names == {sess[i].Username : i \in DOMAIN sess}
    IN  [u \in names |->
            Cardinality({i \in DOMAIN sess : sess[i].Username = u})]

\* map username -> client type of the user's last session in the list
GetUserClientTypes(sess) ==
    LET names == {sess[i].Username : i \in DOMAIN sess}
        lastOf(u) == CHOOSE i \in DOMAIN sess :
                        /\ sess[i].Username = u
                        /\ \A j \in DOMAIN sess : sess[j].Username = u => j <= i
    IN  [u \in names |-> classifyUserAgent(sess[lastOf(u)].UserAgent)]

\* the answer of one server's occtl to a round: failAt is the call that
\* returns an error (1 GetStatus, 2 GetUserAgentStats, 3 GetUserSessionCounts,
\* 4 GetUsers, 5 GetUserClientTypes), 0 when none does
Answer(failAt, status, sess, users) ==
    [failAt |-> failAt, status |-> status, sessions |-> sess, users |-> users]

\* call number step of the round returned without error
Returned(answer, step) == answer.failAt = 0 \/ answer.failAt > step

\* Collector.LookupCountry
LookupCountry(ip) == IF ~geoIP THEN "" ELSE Lookup(ip)[1]

(***************************************************************************)
(* main.pollOcctl: one round over the clients, answers[server] being what  *)
(* the server's occtl returns and now the reading of time.Now().           *)
(***************************************************************************)
\* the label values pollOcctl sets for a user of a server
PollLabels(server, answer, user) ==
    LET clientTypes == GetUserClientTypes(answer.sessions)
        clientType ==
            IF Returned(answer, 5) /\ user.Username \in DOMAIN clientTypes
            THEN clientTypes[user.Username]
            ELSE ""
    IN  <<server, user.Username, user.VpnIP, LookupCountry(user.ClientIP),
          clientType>>

\* allUserAgentStats as SessionsByClientType is set from it (main.go:289-293)
RoundClientTypes(answers) ==
    LET withStats == {s \in DOMAIN answers : Returned(answers[s], 2)}
        stats(s) == GetUserAgentStats(answers[s].sessions)
        typeLabels == {<<s, t>> : s \in withStats, t \in UNION {DOMAIN stats(x) : x \in withStats}}
    IN  [l \in {x \in typeLabels : x[2] \in DOMAIN stats(x[1])} |->
            stats(l[1])[l[2]]]

\* allUserSessionCounts as UserConcurrentSessions is set from it
\* (main.go:297-301)
RoundConcurrentSessions(answers) ==
    LET withCounts == {s \in DOMAIN answers : Returned(answers[s], 3)}
        counts(s) == GetUserSessionCounts(answers[s].sessions)
        userLabels == {<<s, u>> : s \in withCounts, u \in UNION {DOMAIN counts(x) : x \in withCounts}}
    IN  [l \in {x \in userLabels : x[2] \in DOMAIN counts(x[1])} |->
            counts(l[1])[l[2]]]

\* allUsers: the <<server, index>> of the users the last loop sets
RoundUsers(answers) ==
    LET withUsers == {s \in DOMAIN answers : Returned(answers[s], 4)}
        entries == {<<s, i>> : s \in withUsers,
                               i \in UNION {DOMAIN answers[x].users : x \in withUsers}}
    IN  {en \in entries : en[2] \in DOMAIN answers[en[1]].users}

\* the label values and the value set for user en of allUsers
RoundLabels(answers, en) ==
    PollLabels(en[1], answers[en[1]], answers[en[1]].users[en[2]])
RoundValue(answers, now, en) == now - answers[en[1]].users[en[2]].Since

\* the session-info vector after the last loop, begun on an empty vector
RoundSessionInfo(answers, now) ==
    LET written == RoundUsers(answers)
        \* of the users set under the same label values the last one stays
        lastWith(l) == CHOOSE en \in written :
                          /\ RoundLabels(answers, en) = l
                          /\ \A other \in written :
                                RoundLabels(answers, other) = l => other[2] <= en[2]
    IN  [l \in {RoundLabels(answers, en) : en \in written} |->
            RoundValue(answers, now, lastWith(l))]

pollOcctl(answers, now) ==
    LET withStatus == {s \in DOMAIN answers : Returned(answers[s], 1)}
    IN  /\ ServerGauges' =
              [s \in DOMAIN ServerGauges \cup withStatus |->
                  IF s \in withStatus THEN answers[s].status ELSE ServerGauges[s]]
        /\ SessionsByClientType' = RoundClientTypes(answers)
        /\ UserConcurrentSessions' = RoundConcurrentSessions(answers)
        /\ SessionInfo' = RoundSessionInfo(answers, now)
        /\ UNCHANGED tables
        /\ UNCHANGED <<ActiveSessions, ConnectionsTotal, ReconnectsTotal,
                       SessionDuration, ProblematicSessionsTotal,
                       DisconnectionsTotal, ReceivedBytesTotal, SentBytesTotal,
                       ConnectionsByCountry, AuthFailedTotal,
                       LastEventTimestamp>>

(***************************************************************************)
(* PollSpec: the life cycle of alice's sessions on "ocserv", the cleanup   *)
(* pass, and rounds of pollOcctl over two servers.  occtl reports the      *)
(* sessions the table holds that have their VPN address, with the start    *)
(* time the table has.                                                     *)
(***************************************************************************)
MaxPollEvents == 4      \* operations per behaviour of PollSpec

PollServers == {"ocserv", "ocserv-ru"}
\* readings of the wall clock taken by pollOcctl
PollTimes == {345}
\* User-Agent headers of the clients
UserAgents == {"OpenConnect-GUI 1.5.3", ""}

\* the sessions of a server that occtl reports, by port
ConnectedKeys(server) ==
    {k \in DOMAIN sessions :
        /\ ~IsSidKey(k)
        /\ sessions[k].Server = server
        /\ sessions[k].VpnIP # ""}

ConnectedInOrder(server) ==
    LET keys == ConnectedKeys(server)
    IN  CHOOSE f \in [1..Cardinality(keys) -> keys] :
            \A i, j \in DOMAIN f : i < j => sessions[f[i]].Port < sessions[f[j]].Port

\* what a server's occtl answers at the time now, every client having sent
\* the header userAgent
AnswerOf(server, now, userAgent, failAt) ==
    LET inOrder == ConnectedInOrder(server)
        since(k) == IF now > sessions[k].StartTime
                    THEN now - sessions[k].StartTime ELSE 0
    IN  Answer(failAt, Cardinality(ConnectedKeys(server)),
               [i \in DOMAIN inOrder |->
                   OcctlSession(sessions[inOrder[i]].Username, userAgent)],
               [i \in DOMAIN inOrder |->
                   User(sessions[inOrder[i]].Username,
                        sessions[inOrder[i]].ClientIP,
                        sessions[inOrder[i]].VpnIP, since(inOrder[i]))])

\* the goroutine of main that polls: pollOcctl(occtlClients, coll)
Refresh(answers, now) ==
    /\ nEvents' = nEvents + 1
    /\ now >= clock
    /\ clock' = now
    /\ last' = Event("Poll", now, "")
    /\ prev' = Snapshot
    /\ pollOcctl(answers, now)
    /\ UNCHANGED <<geoIP, mainVars, everDisconnected, paused, round>>
    /\ UNCHANGED lockVars

PollLogin ==
    /\ nEvents < MaxPollEvents
    /\ \E e \in {x \in DeepLoginEvents : x.Timestamp < 300} : Deliver(e)
PollDisconnect ==
    /\ nEvents < MaxPollEvents
    /\ \E e \in {x \in DeepDisconnectEvents : x.Timestamp > 0} : Deliver(e)
PollVpnIpAssigned ==
    /\ nEvents < MaxPollEvents
    /\ \E e \in DeepVPNIPEvents : Deliver(e)
PollSweeper ==
    /\ nEvents < MaxPollEvents
    /\ \E now \in SweepTimes : Tick(now)
Poll ==
    /\ nEvents < MaxPollEvents
    /\ \E now \in PollTimes, userAgent \in UserAgents, failAt \in 0..5 :
          Refresh([s \in PollServers |->
                      AnswerOf(s, now, userAgent,
                               IF s = "ocserv" THEN failAt ELSE 0)],
                  now)

PollNext ==
    \/ PollLogin
    \/ PollDisconnect
    \/ PollVpnIpAssigned
    \/ PollSweeper
    \/ Poll

PollSpec == Init /\ [][PollNext]_vars

\* the entries of the session-info gauge under a server, username and VPN
\* address, whatever their country and client type
InfoEntriesOf(vec, server, username, vpnIP) ==
    {l \in DOMAIN vec : l[1] = server /\ l[2] = username /\ l[3] = vpnIP}

\* C27: the refresh keys the session-info gauge as the event handlers do:
\* after a round, an entry under the server, username and VPN address of a
\* session of the table is the entry the handlers address for it, so that a
\* Disconnect that removes a session, and a cleanup pass that evicts one,
\* leave no entry under that session's server, username and VPN address.
C27_RefreshKeyedAsLog ==
    /\ last.Type = "Poll" =>
          \A k \in PrimaryKeys :
              InfoEntriesOf(SessionInfo, sessions[k].Server,
                            sessions[k].Username, sessions[k].VpnIP)
                  \subseteq {SessionInfoLabels(sessions[k])}
    /\ (last.Type = EventUserDisconnect /\ lastSessionKey \in DOMAIN prev.sessions) =>
          InfoEntriesOf(SessionInfo, last.Server, last.Username,
                        prev.sessions[lastSessionKey].VpnIP) = {}
    /\ last.Type = "Cleanup" =>
          \A k \in DOMAIN prev.sessions \ DOMAIN sessions :
              InfoEntriesOf(SessionInfo, prev.sessions[k].Server,
                            prev.sessions[k].Username,
                            prev.sessions[k].VpnIP) = {}

\* the same without the client type: the entries differ from the handlers'
\* in nothing else
C27_KeyedAsLogButClientType ==
    last.Type = "Poll" =>
        \A k \in PrimaryKeys :
            \A l \in InfoEntriesOf(SessionInfo, sessions[k].Server,
                                   sessions[k].Username, sessions[k].VpnIP) :
                /\ l[4] = sessions[k].Country
                /\ SessionInfo[l] = sessions[k].StartTime


(***************************************************************************)
(* CancelSpec: the goroutines of main and the context they watch.  The     *)
(* position of a goroutine is the statement it is at: "idle" before main   *)
(* starts it, "returned" after its return.  Entries arrive in the log and  *)
(* the tickers fire when they will, a bounded number of times; the signal  *)
(* handler cancels the context at most once.                               *)
(***************************************************************************)
MaxCancelOps == 2       \* entries, ticks and rounds per behaviour of CancelSpec

\* the entries that arrive in the log
CancelEntries ==
    {Entry(0, "ocserv", LoginLine("alice", "62.4.32.53", "30595")),
     Entry(45, "ocserv", "worker[alice]: 62.4.32.53 configured link MTU is 1420")}

\* the reading of time.Now() in the cleanup pass and in the round
NowReadings == {645}

\* the entries, ticks and rounds that arrived, handled or not
Arrived ==
    nEvents + journal + Cardinality({t \in Tickers : tick[t]})
    + (IF loop["reader"] = "ProcessLogLine" THEN 1 ELSE 0)
    + (IF loop["cleanup"] = "CleanupOldDisconnects" THEN 1 ELSE 0)
    + (IF loop["poller"] = "pollOcctl" THEN 1 ELSE 0)

\* nothing of the collector, of the log or of the tickers changes
ControlFrame ==
    /\ UNCHANGED <<tables, metrics>>
    /\ UNCHANGED <<geoIP, clock, nEvents, last, prev, everDisconnected, paused,
                   line>>
    /\ UNCHANGED occtlVars
    /\ UNCHANGED lockVars

\* main starts the goroutines: the reader of a file or of the journal, the
\* cleanup loop, and with --occtl.enabled the poller, which begins with a
\* round
StartMain ==
    /\ loop["reader"] = "idle"
    /\ \E file \in BOOLEAN, occtlEnabled \in BOOLEAN :
          /\ logFile' = file
          /\ loop' = [g \in Loops |->
                         CASE g = "reader" -> "select"
                           [] g = "cleanup" -> "select"
                           [] g = "poller" ->
                                 IF occtlEnabled THEN "pollOcctl" ELSE "idle"]
    /\ UNCHANGED <<ctxDone, journal, tick>>
    /\ ControlFrame

\* SIGINT or SIGTERM: cancel()
Signal ==
    /\ loop["reader"] # "idle"
    /\ ~ctxDone
    /\ ctxDone' = TRUE
    /\ UNCHANGED <<loop, journal, logFile, tick>>
    /\ ControlFrame

\* ocserv writes an entry to the log
EntryWritten ==
    /\ loop["reader"] # "idle"
    /\ Arrived < MaxCancelOps
    /\ journal' = journal + 1
    /\ UNCHANGED <<ctxDone, loop, logFile, tick>>
    /\ ControlFrame

\* a ticker that is not stopped puts a tick in its channel, of capacity one
TickArrives ==
    /\ Arrived < MaxCancelOps
    /\ \E t \in Tickers :
          /\ loop[t] \notin {"idle", "returned"}
          /\ ~tick[t]
          /\ tick' = [tick EXCEPT ![t] = TRUE]
    /\ UNCHANGED <<ctxDone, loop, journal, logFile>>
    /\ ControlFrame

\* select { case <-ctx.Done(): return; default: } and then reader.Read()
ReaderSelect ==
    /\ loop["reader"] = "select"
    /\ loop' = [loop EXCEPT !["reader"] = IF ctxDone THEN "returned" ELSE "Read"]
    /\ UNCHANGED <<ctxDone, journal, logFile, tick>>
    /\ ControlFrame

\* reader.Read(): the next entry when there is one; without one
\* FileReader.Read returns nil, nil and the loop sleeps, and
\* JournalReader.Read calls r.journal.Wait(sdjournal.IndefiniteWait)
ReaderRead ==
    /\ loop["reader"] = "Read"
    /\ \/ /\ journal > 0
          /\ journal' = journal - 1
          /\ \E entry \in CancelEntries : line' = entry
          /\ loop' = [loop EXCEPT !["reader"] = "ProcessLogLine"]
       \/ /\ journal = 0
          /\ loop' = [loop EXCEPT !["reader"] = IF logFile THEN "Sleep" ELSE "Wait"]
          /\ UNCHANGED <<journal, line>>
    /\ UNCHANGED <<ctxDone, logFile, tick>>
    /\ UNCHANGED <<tables, metrics>>
    /\ UNCHANGED <<geoIP, clock, nEvents, last, prev, everDisconnected, paused>>
    /\ UNCHANGED occtlVars
    /\ UNCHANGED lockVars

\* reader.Read() returns an error: log.Printf and continue
ReaderReadFails ==
    /\ loop["reader"] = "Read"
    /\ loop' = [loop EXCEPT !["reader"] = "select"]
    /\ UNCHANGED <<ctxDone, journal, logFile, tick>>
    /\ ControlFrame

\* r.journal.Wait returns when the journal changes, and Read goes on
ReaderWaitReturns ==
    /\ loop["reader"] = "Wait"
    /\ journal > 0
    /\ loop' = [loop EXCEPT !["reader"] = "Read"]
    /\ UNCHANGED <<ctxDone, journal, logFile, tick>>
    /\ ControlFrame

\* time.Sleep(100 * time.Millisecond) is over: continue
ReaderSleepReturns ==
    /\ loop["reader"] = "Sleep"
    /\ loop' = [loop EXCEPT !["reader"] = "select"]
    /\ UNCHANGED <<ctxDone, journal, logFile, tick>>
    /\ ControlFrame

\* coll.ProcessLogLine(entry.Timestamp, entry.Message, entry.Unit)
ReaderProcess ==
    /\ loop["reader"] = "ProcessLogLine"
    /\ loop' = [loop EXCEPT !["reader"] = "select"]
    /\ nEvents' = nEvents + 1
    /\ \E event \in {Parse(line.Timestamp, line.Message, line.Unit)} :
          last' = event
    /\ prev' = Snapshot
    /\ ProcessLogLine(line.Timestamp, line.Message, line.Unit)
    /\ UNCHANGED <<geoIP, clock, everDisconnected, paused, line, ctxDone,
                   journal, logFile, tick>>
    /\ UNCHANGED occtlVars
    /\ UNCHANGED lockVars

\* select of a ticker loop: return on ctx.Done(), the body on a tick; with
\* both ready either
TickerSelect(g, body) ==
    /\ loop[g] = "select"
    /\ \/ /\ ctxDone
          /\ loop' = [loop EXCEPT ![g] = "returned"]
          /\ UNCHANGED tick
       \/ /\ tick[g]
          /\ tick' = [tick EXCEPT ![g] = FALSE]
          /\ loop' = [loop EXCEPT ![g] = body]
    /\ UNCHANGED <<ctxDone, journal, logFile>>
    /\ ControlFrame

CleanupSelect == TickerSelect("cleanup", "CleanupOldDisconnects")

\* coll.CleanupOldDisconnects()
CleanupRun ==
    /\ loop["cleanup"] = "CleanupOldDisconnects"
    /\ loop' = [loop EXCEPT !["cleanup"] = "select"]
    /\ nEvents' = nEvents + 1
    /\ prev' = Snapshot
    /\ \E now \in NowReadings :
          /\ clock' = now
          /\ last' = Event("Cleanup", now, "")
          /\ CleanupOldDisconnects(now)
    /\ UNCHANGED <<geoIP, everDisconnected, paused, line, ctxDone, journal,
                   logFile, tick>>
    /\ UNCHANGED occtlVars
    /\ UNCHANGED lockVars

PollerSelect == TickerSelect("poller", "pollOcctl")

\* pollOcctl(clients, coll)
PollerRun ==
    /\ loop["poller"] = "pollOcctl"
    /\ loop' = [loop EXCEPT !["poller"] = "select"]
    /\ nEvents' = nEvents + 1
    /\ prev' = Snapshot
    /\ \E now \in NowReadings :
          /\ clock' = now
          /\ last' = Event("Poll", now, "")
          /\ pollOcctl([s \in PollServers |-> AnswerOf(s, now, "", 0)], now)
    /\ UNCHANGED <<geoIP, everDisconnected, paused, line, ctxDone, journal,
                   logFile, tick, round>>
    /\ UNCHANGED lockVars

ReaderStep ==
    \/ ReaderSelect
    \/ ReaderRead
    \/ ReaderReadFails
    \/ ReaderWaitReturns
    \/ ReaderSleepReturns
    \/ ReaderProcess
CleanupStep == CleanupSelect \/ CleanupRun
PollerStep == PollerSelect \/ PollerRun

CancelNext ==
    \/ StartMain
    \/ Signal
    \/ EntryWritten
    \/ TickArrives
    \/ ReaderStep
    \/ CleanupStep
    \/ PollerStep

\* a goroutine that can take a step takes it; the signal, the entries and
\* the ticks come or do not
CancelSpec ==
    /\ Init
    /\ [][CancelNext]_vars
    /\ WF_vars(ReaderStep)
    /\ WF_vars(CleanupStep)
    /\ WF_vars(PollerStep)

\* the loop of goroutine g is over, or main never started it
Terminated(g) == loop[g] \in {"idle", "returned"}

\* C21: once the context is cancelled the log reader loop, the cleanup loop
\* and the poll loop each return in the end, whether further log entries
\* arrive or not.
C21_LoopsTerminateAfterCancel ==
    ctxDone ~> (Terminated("reader") /\ Terminated("cleanup") /\ Terminated("poller"))

\* the two ticker loops return in the end
C21_TickerLoopsTerminate ==
    ctxDone ~> (Terminated("cleanup") /\ Terminated("poller"))

\* the reader of a log file returns in the end
C21_FileReaderTerminates ==
    (ctxDone /\ logFile) ~> Terminated("reader")


(***************************************************************************)
(* Claims about a Disconnect that is not later than its Session's start.   *)
(***************************************************************************)
\* the last event is a Disconnect whose Session was in the table and had
\* started at the Disconnect's timestamp or later
IsEarlyDisconnect ==
    /\ IsDisconnect
    /\ lastSessionKey \in DOMAIN prev.sessions
    /\ last.Timestamp <= prev.sessions[lastSessionKey].StartTime

\* C31: a Disconnect that matches a Session but is not later than its start
\* removes the Session, deletes the session-info entry of the Session and
\* lowers the active-session gauge by one; it observes no duration and
\* counts no problematic session.
C31_EarlyDisconnectCleansUp ==
    IsEarlyDisconnect =>
        /\ sessions = MapDelete(prev.sessions, lastSessionKey)
        /\ SessionInfoLabels(prev.sessions[lastSessionKey]) \notin DOMAIN SessionInfo
        /\ VecValue(ActiveSessions, <<last.Server, last.Username>>)
              = VecValue(prev.ActiveSessions, <<last.Server, last.Username>>) - 1
        /\ SessionDuration = prev.SessionDuration
        /\ ProblematicSessionsTotal = prev.ProblematicSessionsTotal

\* such a Disconnect with a reason that counts as an error, of a Session
\* that had its session-info entry
C31_Witness ==
    /\ IsEarlyDisconnect
    /\ last.Timestamp < prev.sessions[lastSessionKey].StartTime
    /\ isProblematicReason(last.Reason)
    /\ SessionInfoLabels(prev.sessions[lastSessionKey]) \in DOMAIN prev.SessionInfo


(***************************************************************************)
(* Claims about the worker signals ByePacket and DpdWarning.               *)
(***************************************************************************)
IsByePacket == last.Type = EventByePacket
IsDPDWarning == last.Type = EventDPDWarning
lastContextKey == workerContextKey(last.Server, last.Username, last.ClientIP)

\* the context a worker signal starts from: the one the table held, or a
\* fresh one whose flags are all unset
ContextBefore ==
    IF lastContextKey \in DOMAIN prev.workerContext
    THEN prev.workerContext[lastContextKey]
    ELSE WorkerContext(last.Username, last.ClientIP, last.Server, last.Timestamp)

\* the flags of prev.workerContext[k] that are set are set in workerContext[k]
FlagsKept(k) ==
    /\ prev.workerContext[k].HadBye => workerContext[k].HadBye
    /\ prev.workerContext[k].DPDWarning => workerContext[k].DPDWarning
    /\ prev.workerContext[k].SecModClose => workerContext[k].SecModClose

\* C33: ByePacket and DpdWarning create the context of their
\* (server, username, client IP) when absent and update it in place
\* otherwise, setting their own flag (DpdWarning also the seconds) and the
\* last-update time and nothing else; a flag that is set stays set while the
\* entry exists, and an entry leaves the table only with a Disconnect of its
\* user or with a Sweeper pass.
C33_WorkerSignalsAccumulate ==
    /\ IsByePacket =>
          workerContext = MapPut(prev.workerContext, lastContextKey,
              [ContextBefore EXCEPT !.HadBye = TRUE,
                                    !.LastUpdate = last.Timestamp])
    /\ IsDPDWarning =>
          workerContext = MapPut(prev.workerContext, lastContextKey,
              [ContextBefore EXCEPT !.DPDWarning = TRUE,
                                    !.DPDSeconds = last.DPDSeconds,
                                    !.LastUpdate = last.Timestamp])
    /\ \A k \in DOMAIN prev.workerContext :
          IF k \in DOMAIN workerContext
          THEN FlagsKept(k)
          ELSE \/ IsCleanup
               \/ /\ IsDisconnect
                  /\ last.Server = prev.workerContext[k].Server
                  /\ last.Username = prev.workerContext[k].Username

\* a DpdWarning arrived for a context that already carried the ByePacket
\* flag, and the context now carries both
C33_Witness ==
    /\ IsDPDWarning
    /\ lastContextKey \in DOMAIN prev.workerContext
    /\ prev.workerContext[lastContextKey].HadBye
    /\ ~prev.workerContext[lastContextKey].DPDWarning
    /\ workerContext[lastContextKey].HadBye
    /\ workerContext[lastContextKey].DPDWarning


(***************************************************************************)
(* Claims about the active-session gauge and the Session table.            *)
(***************************************************************************)
\* the primary Sessions of (server, username) in a Session table
SessionsOf(table, server, username) ==
    {k \in DOMAIN table : /\ ~IsSidKey(k)
                          /\ table[k].Server = server
                          /\ table[k].Username = username}

GaugeUsers == Servers \X Usernames

\* C35: for every (server, username) the active-session gauge equals the
\* number of primary Sessions of that user in the Session table.
C35_GaugeCountsPrimarySessions ==
    \A l \in GaugeUsers :
        VecValue(ActiveSessions, l) = Cardinality(SessionsOf(sessions, l[1], l[2]))

\* C37: the active-session gauge of every (server, username) is never
\* negative: it is lowered only by the number of primary Sessions of that
\* user that leave the table in the same step, and it never falls below the
\* number of Sessions that remain.
C37_GaugeNeverNegative ==
    \A l \in GaugeUsers :
        /\ VecValue(ActiveSessions, l) >= 0
        /\ VecValue(ActiveSessions, l) >= Cardinality(SessionsOf(sessions, l[1], l[2]))
        /\ VecValue(ActiveSessions, l) < VecValue(prev.ActiveSessions, l) =>
              VecValue(prev.ActiveSessions, l) - VecValue(ActiveSessions, l)
                 = Cardinality(SessionsOf(prev.sessions, l[1], l[2]) \ DOMAIN sessions)

\* the gauge of a user is back at 0 after a Disconnect that found its
\* Session, and a further Disconnect of the user has left it there
C37_Witness ==
    /\ IsDisconnect
    /\ prev.last.Type = EventUserDisconnect
    /\ prev.last.Username = last.Username
    /\ ~lastFound
    /\ VecValue(ActiveSessions, lastUser) = 0
    /\ lastUser \in DOMAIN ActiveSessions


\* C36: the session-info entries are exactly the label sets of the primary
\* Sessions in the table: every primary Session has the entry
\* (server, username, VPN IP, country, ""), and every entry is the label set
\* of some primary Session in the table.
C36_InfoEntriesMatchSessions ==
    /\ \A k \in PrimaryKeys : SessionInfoLabels(sessions[k]) \in DOMAIN SessionInfo
    /\ \A l \in DOMAIN SessionInfo :
          \E k \in PrimaryKeys : SessionInfoLabels(sessions[k]) = l


\* the same correspondence in the states without identifier-keyed entries,
\* where no VpnIpAssigned can have met one
C36_WithoutIdentifierEntries ==
    (\A k \in DOMAIN sessions : ~IsSidKey(k)) => C36_InfoEntriesMatchSessions


(***************************************************************************)
(* PauseSpec: one user connected from two client IPs; worker signals,      *)
(* SessionPaused and Disconnects of both connections.                      *)
(***************************************************************************)
MaxPauseEvents == 4

PauseLoginEvents ==
    {LoginEvent(0, "ocserv", "alice", ip, 30595) : ip \in ClientIPs}

PauseDisconnectEvents ==
    {DisconnectEvent(45, "ocserv", "alice", ip, 30595, r, 100, 200) :
        ip \in ClientIPs, r \in Reasons}

PauseWorkerEvents ==
    {ByePacketEvent(0, "ocserv", "alice", ip) : ip \in ClientIPs}
    \cup {DPDWarningEvent(0, "ocserv", "alice", "62.4.32.53", 137)}

PauseSecModCloseEvents == {SecModCloseEvent(0, "ocserv", "alice", "yKsy7b")}

PauseLogin ==
    /\ nEvents < MaxPauseEvents
    /\ \E e \in PauseLoginEvents : Deliver(e)
PauseDisconnect ==
    /\ nEvents < MaxPauseEvents
    /\ \E e \in PauseDisconnectEvents : Deliver(e)
PauseWorkerSignal ==
    /\ nEvents < MaxPauseEvents
    /\ \E e \in PauseWorkerEvents : Deliver(e)
PauseSessionPaused ==
    /\ nEvents < MaxPauseEvents
    /\ \E e \in PauseSecModCloseEvents : Deliver(e)

PauseNext ==
    \/ PauseLogin
    \/ PauseDisconnect
    \/ PauseWorkerSignal
    \/ PauseSessionPaused

PauseSpec == Init /\ [][PauseNext]_vars

\* the reason labels under which Disconnects of the last event's user were
\* counted before the last event
ReasonsCountedBefore ==
    {r \in ReasonLabels :
        <<last.Server, last.Username, r>> \in DOMAIN prev.DisconnectionsTotal}

\* the last two events are Disconnects of one user with raw reason
\* "unspecified error", and every Disconnect of the user before the last
\* one, the first of the two included, was counted as "mobile sleep"
IsDisconnectAfterMobileSleep ==
    /\ IsDisconnect
    /\ last.Reason = "unspecified error"
    /\ prev.last.Type = EventUserDisconnect
    /\ prev.last.Server = last.Server
    /\ prev.last.Username = last.Username
    /\ prev.last.Reason = "unspecified error"
    /\ ReasonsCountedBefore = {"mobile sleep"}

\* C38: when a Disconnect of a user was enriched to "mobile sleep", the next
\* Disconnect of the user with raw reason "unspecified error", no
\* SessionPaused having been processed in between, is not counted as
\* "mobile sleep".
C38_OnePauseOneDisconnect ==
    IsDisconnectAfterMobileSleep => "mobile sleep" \notin CountedReasons


(***************************************************************************)
(* Claim about the rules of Parse excluding one another, under ParseSpec.  *)
(***************************************************************************)
\* the rules whose expression matches the message
MatchingRules(message) ==
    {i \in DOMAIN ParseRules :
        FindStringSubmatch(RuleExpr(ParseRules[i]), message) # << >>}

\* C34: at most one rule matches a line, and a line that the
\* failed-authentication rule matches, whatever username it carries, is
\* classified neither as a Login nor as a Disconnect.
C34_RulesMutuallyExclusive ==
    LineProcessed =>
        /\ Cardinality(MatchingRules(line.Message)) <= 1
        /\ FindStringSubmatch(reAuthFailed, line.Message) # << >>
              => last.Type \notin {EventUserLogin, EventUserDisconnect}


(***************************************************************************)
(* Claim about a round of pollOcctl in which a call fails, under PollSpec. *)
(***************************************************************************)
\* the entries of a gauge vector whose first label value is the server
EntriesOfServer(vec, server) ==
    [l \in {x \in DOMAIN vec : x[1] = server} |-> vec[l]]

\* the session-info entries the event handlers wrote for Sessions of the table
LogDerivedEntries ==
    {SessionInfoLabels(sessions[k]) : k \in PrimaryKeys} \cap DOMAIN SessionInfo

\* a round in which call number failAt of the client of "ocserv" fails
FailedRound(now, userAgent, failAt) ==
    Refresh([s \in PollServers |->
                AnswerOf(s, now, userAgent, IF s = "ocserv" THEN failAt ELSE 0)],
            now)

\* C39: a round in which a call for a server fails, whichever of the five
\* it is, leaves the session-info, client-type and concurrent-session
\* entries of that server as they were, and leaves the session-info entries
\* the event handlers wrote, of every server, in place.
C39_FailedRoundKeepsEntries ==
    [][\A now \in PollTimes, userAgent \in UserAgents, failAt \in 1..5 :
          FailedRound(now, userAgent, failAt) =>
              /\ EntriesOfServer(SessionInfo', "ocserv")
                    = EntriesOfServer(SessionInfo, "ocserv")
              /\ EntriesOfServer(SessionsByClientType', "ocserv")
                    = EntriesOfServer(SessionsByClientType, "ocserv")
              /\ EntriesOfServer(UserConcurrentSessions', "ocserv")
                    = EntriesOfServer(UserConcurrentSessions, "ocserv")
              /\ LogDerivedEntries \subseteq DOMAIN SessionInfo']_vars


(***************************************************************************)
(* RoundSpec: pollOcctl statement by statement.  The round collects the    *)
(* answers of the occtl clients and then resets and sets the three gauge   *)
(* vectors; it takes no lock of the collector, so the log reader's         *)
(* handlers and the cleanup pass, each atomic under Collector.mu, run      *)
(* between its statements, and so does a scrape.  Every call on a vector   *)
(* is atomic in itself.                                                    *)
(***************************************************************************)
MaxRoundOps == 4        \* events, cleanup passes and rounds per behaviour

\* a statement of the round has been executed
RoundStatement(at, pending) ==
    /\ round' = [round EXCEPT !.at = at, !.pending = pending]
    /\ last' = Event("Poll", round.now, "")
    /\ prev' = Snapshot
    /\ UNCHANGED tables
    /\ UNCHANGED <<geoIP, clock, nEvents, everDisconnected, paused, mainVars>>
    /\ UNCHANGED lockVars

\* main.go:234-285: the loop over the clients
RoundCollect ==
    /\ nEvents < MaxRoundOps
    /\ round.at = "idle"
    /\ \E now \in PollTimes, userAgent \in UserAgents :
          LET answers == [s \in PollServers |-> AnswerOf(s, now, userAgent, 0)]
              withStatus == {s \in DOMAIN answers : Returned(answers[s], 1)}
          IN  /\ now >= clock
              /\ clock' = now
              /\ round' = [at |-> "SessionsByClientType.Reset",
                           answers |-> answers, now |-> now, pending |-> {}]
              /\ last' = Event("Poll", now, "")
              /\ ServerGauges' =
                    [s \in DOMAIN ServerGauges \cup withStatus |->
                        IF s \in withStatus THEN answers[s].status
                        ELSE ServerGauges[s]]
    /\ nEvents' = nEvents + 1
    /\ prev' = Snapshot
    /\ UNCHANGED <<tables, metrics>>
    /\ UNCHANGED <<geoIP, everDisconnected, paused, mainVars,
                   SessionsByClientType, UserConcurrentSessions>>
    /\ UNCHANGED lockVars

\* main.go:288
ResetClientTypes ==
    /\ round.at = "SessionsByClientType.Reset"
    /\ SessionsByClientType' = EmptyMap
    /\ RoundStatement("SessionsByClientType.Set", {})
    /\ UNCHANGED <<metrics, ServerGauges, UserConcurrentSessions>>

\* main.go:289-293
SetClientTypes ==
    /\ round.at = "SessionsByClientType.Set"
    /\ SessionsByClientType' = RoundClientTypes(round.answers)
    /\ RoundStatement("UserConcurrentSessions.Reset", {})
    /\ UNCHANGED <<metrics, ServerGauges, UserConcurrentSessions>>

\* main.go:296
ResetConcurrentSessions ==
    /\ round.at = "UserConcurrentSessions.Reset"
    /\ UserConcurrentSessions' = EmptyMap
    /\ RoundStatement("UserConcurrentSessions.Set", {})
    /\ UNCHANGED <<metrics, ServerGauges, SessionsByClientType>>

\* main.go:297-301
SetConcurrentSessions ==
    /\ round.at = "UserConcurrentSessions.Set"
    /\ UserConcurrentSessions' = RoundConcurrentSessions(round.answers)
    /\ RoundStatement("SessionInfo.Reset", {})
    /\ UNCHANGED <<metrics, ServerGauges, SessionsByClientType>>

\* main.go:304; with no user to set the round returns
ResetSessionInfo ==
    /\ round.at = "SessionInfo.Reset"
    /\ SessionInfo' = EmptyMap
    /\ LET users == RoundUsers(round.answers)
       IN  RoundStatement(IF users = {} THEN "idle" ELSE "SessionInfo.Set", users)
    /\ UNCHANGED <<ActiveSessions, ConnectionsTotal, ReconnectsTotal,
                   SessionDuration, ProblematicSessionsTotal,
                   DisconnectionsTotal, ReceivedBytesTotal, SentBytesTotal,
                   ConnectionsByCountry, AuthFailedTotal, LastEventTimestamp>>
    /\ UNCHANGED <<ServerGauges, SessionsByClientType, UserConcurrentSessions>>

\* main.go:305-320: one user of one server, the users of a server in the
\* order of the list; after the last one the round returns
SetSessionInfo ==
    /\ round.at = "SessionInfo.Set"
    /\ \E en \in round.pending :
          /\ \A other \in round.pending : other[1] = en[1] => en[2] <= other[2]
          /\ SessionInfo' = VecSet(SessionInfo, RoundLabels(round.answers, en),
                                   RoundValue(round.answers, round.now, en))
          /\ RoundStatement(IF round.pending = {en} THEN "idle" ELSE "SessionInfo.Set",
                            round.pending \ {en})
    /\ UNCHANGED <<ActiveSessions, ConnectionsTotal, ReconnectsTotal,
                   SessionDuration, ProblematicSessionsTotal,
                   DisconnectionsTotal, ReceivedBytesTotal, SentBytesTotal,
                   ConnectionsByCountry, AuthFailedTotal, LastEventTimestamp>>
    /\ UNCHANGED <<ServerGauges, SessionsByClientType, UserConcurrentSessions>>

RoundLogin ==
    /\ nEvents < MaxRoundOps
    /\ \E e \in {x \in DeepLoginEvents : x.Timestamp < 300} : Deliver(e)
RoundDisconnect ==
    /\ nEvents < MaxRoundOps
    /\ \E e \in {x \in DeepDisconnectEvents : x.Timestamp > 0} : Deliver(e)
RoundVpnIpAssigned ==
    /\ nEvents < MaxRoundOps
    /\ \E e \in DeepVPNIPEvents : Deliver(e)
RoundSweeper ==
    /\ nEvents < MaxRoundOps
    /\ \E now \in SweepTimes : Tick(now)

RoundNext ==
    \/ RoundLogin
    \/ RoundDisconnect
    \/ RoundVpnIpAssigned
    \/ RoundSweeper
    \/ RoundCollect
    \/ ResetClientTypes
    \/ SetClientTypes
    \/ ResetConcurrentSessions
    \/ SetConcurrentSessions
    \/ ResetSessionInfo
    \/ SetSessionInfo

RoundSpec == Init /\ [][RoundNext]_vars

\* the round has reset the session-info vector and has users left to set
Repopulating == round.at = "SessionInfo.Set"

\* C32: between the reset of the session-info vector and the end of its
\* repopulation no handler and no cleanup pass changes the vector, and the
\* vector is not to be seen emptied of the entries it had before the reset.
C32_RoundAtomic ==
    Repopulating =>
        /\ last.Type # "Poll" => SessionInfo = prev.SessionInfo
        /\ last.Type = "Poll" =>
              ~(SessionInfo = EmptyMap /\ prev.SessionInfo # EmptyMap)

=============================================================================
